---------------------------- MODULE Spec2Model ----------------------------
(***************************************************************************)
(* Verification model of web-ssh-gateway's session transport: the binary   *)
(* frame codec, the per-session output ring buffer and the server-side     *)
(* connection handler / session registry of server.ts (the revision that   *)
(* has the 'ssh' and 'local' backends, src/unnamed/part_003:351-1071).     *)
(*                                                                         *)
(* Three specifications share the module:                                  *)
(*   SpecCodec  encodeFrame / decodeFrame on enumerated inputs             *)
(*   SpecRing   appendOutput / the outputBuffer getter on one session      *)
(*   Spec       the server: sockets, registry, backends, timers            *)
(***************************************************************************)
EXTENDS Integers, Sequences, FiniteSets, TLC

(***************************************************************************)
(* Bounds of the model.                                                    *)
(***************************************************************************)
\* SpecCodec: short payloads are enumerated in full up to this length
MaxShortLen == 2
\* SpecCodec: a truncation keeps at most this many leading bytes, or drops
\* at most this many trailing bytes
MaxCut == 4
\* SpecRing / Spec: capacity of the ring buffer (MAX_OUTPUT_BUFFER, scaled)
RingCap == 3
\* SpecRing: largest chunk handed to one appendOutput call
MaxChunk == 2
\* SpecRing: bytes appended beyond twice the capacity
MaxExtra == 1
\* Spec: WebSocket connections accepted over a run
NumSocks == 2
\* Spec: distinct session keys (tabId) clients use
NumKeys == 1
\* Spec: backends (handleAuth activations that reach connect / spawn)
MaxBackends == 1
\* Spec: output chunks one backend produces
MaxOut == 1
\* Spec: DATA frames written to one backend
MaxIn == 2
\* Spec: AUTH and RECONNECT frames a client sends on one socket
MaxHello == 1
\* Spec: the clock stops after this many sweep intervals
MaxTicks == 11
\* SpecSend: chunks in one batch
MaxBatch == 2
\* SpecFrames: frames a socket sends that are ignored
MaxBad == 1
\* SpecAdmit: sockets, session keys and backends
NumAdmitSocks == 3
NumAdmitKeys == 3
MaxAdmitBackends == 3
\* MAX_TOTAL_SESSIONS (20 in the source) scaled down so that it is reached
SessionCap == 2
\* MAX_SESSIONS_PER_IP (5 in the source) scaled down likewise
ClientCap == 1
\* SpecClient: WebSockets the client creates, and keystrokes
MaxLifeBackends == 2
MaxBurst == 3
MaxCols == 3
MaxRows == 2
MaxScroll == 1
MaxClientSocks == 5
MaxTyped == 1
\* SpecReload: the last value of Date.now(), page loads, tabs of one page
MaxDateNow == 4
MaxLoads == 3
MaxTabs == 2

(***************************************************************************)
(* Program constants.                                                      *)
(***************************************************************************)
\* one byte holds 0..255; writeUInt16LE stores two of them
ByteRange == 256
\* largest value writeUInt16LE accepts
MaxU16 == 65535

MsgAUTH         == 1
MsgRECONNECT    == 2
MsgDATA         == 3
MsgRESIZE       == 4
MsgPING         == 5
MsgCONNECTED    == 16
MsgRECONNECTED  == 17
MsgREPLAY       == 18
MsgSSH_DATA     == 19
MsgERROR        == 20
MsgDISCONNECTED == 21
MsgSNAPSHOT     == 22

MAX_OUTPUT_BUFFER == RingCap

SESSION_TIMEOUT_MS == 300000

\* period of the session-cleanup timer
SWEEP_INTERVAL_MS == 30000

MAX_SESSIONS_PER_IP == ClientCap
MAX_TOTAL_SESSIONS == SessionCap

\* the sockets, keys and backends of Spec
Socks      == 1..NumSocks
Keys       == 1..NumKeys
BackendIds == 1..MaxBackends

\* those of SpecAdmit
AdmitSocks    == 1..NumAdmitSocks
AdmitKeys     == 1..NumAdmitKeys
AdmitBackends == 1..MaxAdmitBackends

\* those of SpecLife
LifeBackends == 1..MaxLifeBackends

\* the domains of the server's state
AllSocks    == Socks \cup AdmitSocks
AllKeys     == Keys \cup AdmitKeys
AllBackends == BackendIds \cup AdmitBackends \cup LifeBackends

VARIABLES
  \* ---- SpecCodec
  cType,        \* the type byte given to encodeFrame
  cPayload,     \* the payload given to encodeFrame
  raw,          \* the bytes on the wire
  cut,          \* TRUE once raw has been truncated
  decoded,      \* what decodeFrame returned for raw
  cStage,       \* "input" | "encoded" | "decoded"
  \* ---- SpecRing
  ring,         \* one session object, as createSessionState returns it
  appended,     \* every byte handed to appendOutput so far, in order
  \* ---- Spec
  ENABLE_HEADLESS_SNAPSHOT,
                \* the build switch of that name (constant over a run)
  sessions,     \* the registry Map: key -> backend id whose session object
                \* is registered under it, 0 when the key is absent
  backend,      \* per handleSshAuth / handleLocalAuth activation: its
                \* closure variables and the session object it created
  sock,         \* per WebSocket: readyState and the handler's tabId
  recv,         \* per WebSocket: the frames the server sent on it
  now,          \* Date.now()
  attached,     \* history: per backend, the socket that attached last and
                \* whose close handler has not run (0: none)
  missed,       \* history: per backend, the output produced since no
                \* socket has been attached
  \* ---- SpecSend
  outBatch,     \* batchChunks when flushBatch is called
  wsOpen,       \* session.ws.readyState === WebSocket.OPEN at that call
  encodeCalls,  \* the payload lengths encodeFrame has been called with
  sendStage,    \* "input" | "flushed"
  \* ---- SpecClient (Terminal.tsx, one mounted component)
  cSock,             \* the WebSockets the client has created, in order
  wsRef,             \* wsRef.current: index in cSock, 0 for null
  isConnecting,
  reconnectAttempts,
  showReconnectBtn,
  timers,            \* pending setTimeout callbacks of tryReconnect
  scheduled,         \* history: every setTimeout of tryReconnect
  typed,             \* keystrokes produced so far
  dropped,           \* history: keystrokes produced while no socket was open
  \* ---- SpecReload (page.tsx and getOrCreateTabId)
  sessionStorage,    \* the tab-scoped store: its set of <<key, value>> items
  tabs,              \* the tabs state of Home
  dateNow,           \* Date.now()
  loads,             \* history: page loads so far
  presented,         \* history: the tabId of each Terminal mounted, with
                     \* the page load it was mounted in
  \* ---- SpecConfig
  authMsg,           \* the AUTH message handleSshAuth is called with
  connectConfig,     \* the ConnectConfig it passes to conn.connect
  \* ---- SpecSnapshot
  xterm,             \* a headless terminal: cols, rows and buffer lines
  snapshot           \* what serializeSnapshot returned for it

codecVars == <<cType, cPayload, raw, cut, decoded, cStage>>
ringVars  == <<ring, appended>>
srvVars   == <<sessions, backend, sock, recv, now, attached, missed>>
sendVars  == <<outBatch, wsOpen, encodeCalls, sendStage>>
cliVars   == <<cSock, wsRef, isConnecting, reconnectAttempts, showReconnectBtn,
               timers, scheduled, typed, dropped>>
pageVars  == <<sessionStorage, tabs, dateNow, loads, presented>>
fnVars    == <<authMsg, connectConfig, xterm, snapshot>>
vars      == <<codecVars, ringVars, ENABLE_HEADLESS_SNAPSHOT, srvVars, sendVars,
               cliVars, pageVars, fnVars>>

(***************************************************************************)
(* Helpers on sequences.                                                   *)
(***************************************************************************)
Min(a, b) == IF a < b THEN a ELSE b

\* buf.slice(from, to) of a Buffer held as a 1-based sequence (0-based
\* offsets, end exclusive, both clamped to the length)
Slice(buf, from, to) == SubSeq(buf, Min(from, Len(buf)) + 1, Min(to, Len(buf)))

\* the last n elements of s
LastN(s, n) == SubSeq(s, Len(s) - n + 1, Len(s))

\* all sequences over S of length <= n
SeqUpTo(S, n) == UNION {[1..k -> S] : k \in 0..n}

(***************************************************************************)
(* Frame codec.                                                            *)
(***************************************************************************)
\* decodeFrame's null
null == [type |-> -1, payload |-> <<>>]

\* what the model holds when a Buffer read throws a RangeError
RangeError == [type |-> -2, payload |-> <<>>]

\* raw.readUInt8(off) / raw.readUInt16LE(off) throw when the n bytes at
\* off are not all inside the buffer
readOutOfRange(buf, off, n) == off + n > Len(buf)

\* frame.writeUInt8 / writeUInt16LE throw a RangeError on a value out of range
encodeFrameThrows(type, payload) ==
  \/ type \notin 0..(ByteRange - 1)
  \/ Len(payload) > MaxU16

encodeFrame(type, payload) ==
  <<type, Len(payload) % ByteRange, (Len(payload) \div ByteRange) % ByteRange>>
    \o payload

\* a mutant of decodeFrame: the length is read big-endian
decodeFrameBigEndian(buf) ==
  IF Len(buf) < 3 THEN null
  ELSE IF readOutOfRange(buf, 0, 1) \/ readOutOfRange(buf, 1, 2) THEN RangeError
  ELSE LET type   == buf[1]
           payLen == buf[2] * ByteRange + buf[3]
       IN IF Len(buf) < 3 + payLen THEN null
          ELSE [type |-> type, payload |-> Slice(buf, 3, 3 + payLen)]

\* a mutant of decodeFrame: the declared length is not checked against the
\* bytes present
decodeFrameNoLengthCheck(buf) ==
  IF Len(buf) < 3 THEN null
  ELSE IF readOutOfRange(buf, 0, 1) \/ readOutOfRange(buf, 1, 2) THEN RangeError
  ELSE LET type   == buf[1]
           payLen == buf[2] + buf[3] * ByteRange
       IN [type |-> type, payload |-> Slice(buf, 3, 3 + payLen)]

decodeFrame(buf) ==
  IF Len(buf) < 3 THEN null
  ELSE IF readOutOfRange(buf, 0, 1) \/ readOutOfRange(buf, 1, 2) THEN RangeError
  ELSE LET type   == buf[1]
           payLen == buf[2] + buf[3] * ByteRange
       IN IF Len(buf) < 3 + payLen THEN null
          ELSE [type |-> type, payload |-> Slice(buf, 3, 3 + payLen)]

(***************************************************************************)
(* SpecCodec: inputs.                                                      *)
(***************************************************************************)
\* byte values used in enumerated payloads
SampleBytes == {0, 1, 255}

ShortPayloads == SeqUpTo(SampleBytes, MaxShortLen)

\* payload lengths around the byte boundary of the length field, and the
\* largest length the header can declare
LongLens == {255, 256, 257, MaxU16}

LongPayload(n) == [i \in 1..n |-> i % ByteRange]

CodecInputs ==
  ((0..(ByteRange - 1)) \X ShortPayloads)
    \cup {<<MsgREPLAY, LongPayload(n)>> : n \in LongLens}

\* the lengths a truncation of a frame of n bytes may keep
CutLens(n) == {k \in 0..(n - 1) : k <= MaxCut \/ k >= n - MaxCut}

InitCodec ==
  /\ \E inp \in CodecInputs : cType = inp[1] /\ cPayload = inp[2]
  /\ raw = <<>>
  /\ cut = FALSE
  /\ decoded = null
  /\ cStage = "input"

Encode ==
  /\ cStage = "input"
  /\ ~encodeFrameThrows(cType, cPayload)
  /\ raw' = encodeFrame(cType, cPayload)
  /\ cStage' = "encoded"
  /\ UNCHANGED <<cType, cPayload, cut, decoded>>
  /\ UNCHANGED <<fnVars, ringVars, ENABLE_HEADLESS_SNAPSHOT, srvVars, sendVars, cliVars, pageVars>>

Truncate ==
  /\ cStage = "encoded"
  /\ ~cut
  /\ \E k \in CutLens(Len(raw)) : raw' = SubSeq(raw, 1, k)
  /\ cut' = TRUE
  /\ UNCHANGED <<cType, cPayload, decoded, cStage>>
  /\ UNCHANGED <<fnVars, ringVars, ENABLE_HEADLESS_SNAPSHOT, srvVars, sendVars, cliVars, pageVars>>

Decode ==
  /\ cStage = "encoded"
  /\ decoded' = decodeFrame(raw)
  /\ cStage' = "decoded"
  /\ UNCHANGED <<cType, cPayload, raw, cut>>
  /\ UNCHANGED <<fnVars, ringVars, ENABLE_HEADLESS_SNAPSHOT, srvVars, sendVars, cliVars, pageVars>>

(***************************************************************************)
(* Session objects and their output ring buffer.                           *)
(***************************************************************************)
\* byte values of backend output in SpecRing
OutBytes == {1, 2}

\* session.headlessTerm: null, or the headless terminal, held as the bytes
\* written to it so far (what its screen is a function of)
NoTerm == [live |-> FALSE, fed |-> <<>>]

createHeadlessTerminal == [live |-> TRUE, fed |-> <<>>]

\* Buffer.allocUnsafe(MAX_OUTPUT_BUFFER): the contents are not initialised;
\* no read of the model reaches a byte that was not written first
allocUnsafe == [i \in 1..MAX_OUTPUT_BUFFER |-> 0]

createSessionState(kind, ws) ==
  [backend      |-> kind,
   ws           |-> ws,
   lastActivity |-> now,
   headlessTerm |-> IF ENABLE_HEADLESS_SNAPSHOT THEN createHeadlessTerminal
                    ELSE NoTerm,
   _ringBuf     |-> allocUnsafe,
   _ringOffset  |-> 0,
   _ringFull    |-> FALSE]

\* chunk.copy(target, at, src, src + n): target with n bytes of chunk,
\* from 0-based offset src, written from 0-based offset at
CopyInto(target, at, chunk, src, n) ==
  [i \in 1..Len(target) |->
     IF i - 1 >= at /\ i - 1 < at + n THEN chunk[src + (i - 1 - at) + 1]
     ELSE target[i]]

RECURSIVE appendLoop(_, _, _)
appendLoop(session, chunk, src) ==
  IF src >= Len(chunk) THEN session
  ELSE LET space  == MAX_OUTPUT_BUFFER - session._ringOffset
           toCopy == Min(space, Len(chunk) - src)
           off    == (session._ringOffset + toCopy) % MAX_OUTPUT_BUFFER
       IN appendLoop(
            [session EXCEPT
               !._ringBuf    = CopyInto(@, session._ringOffset, chunk, src, toCopy),
               !._ringOffset = off,
               !._ringFull   = IF off = 0 THEN TRUE ELSE @],
            chunk, src + toCopy)

appendOutput(session, chunk) ==
  LET s1 == appendLoop(session, chunk, 0)
  IN IF ENABLE_HEADLESS_SNAPSHOT /\ s1.headlessTerm.live
     THEN [s1 EXCEPT !.headlessTerm.fed = @ \o chunk]
     ELSE s1

\* the ring buffer read in chronological order from an offset and a
\* wrapped flag
ReadRing(ringBuf, ringOffset, ringFull) ==
  IF ~ringFull /\ ringOffset = 0 THEN <<>>
  ELSE IF ~ringFull THEN Slice(ringBuf, 0, ringOffset)
  ELSE Slice(ringBuf, ringOffset, Len(ringBuf)) \o Slice(ringBuf, 0, ringOffset)

\* `get outputBuffer()` of createSessionState reads the function's locals
\* `const ringOffset = 0` and `const ringFull = false`; appendOutput updates
\* session._ringOffset and session._ringFull, never those locals
outputBuffer(session) == ReadRing(session._ringBuf, 0, FALSE)

(***************************************************************************)
(* SpecRing: one session object, chunks appended to it.                    *)
(***************************************************************************)
InitRing ==
  /\ ring = createSessionState("local", 0)
  /\ appended = <<>>

AppendChunk ==
  \E chunk \in SeqUpTo(OutBytes, MaxChunk) :
    /\ Len(chunk) > 0
    /\ Len(appended) + Len(chunk) <= 2 * MAX_OUTPUT_BUFFER + MaxExtra
    /\ ring' = appendOutput(ring, chunk)
    /\ appended' = appended \o chunk
    /\ UNCHANGED <<fnVars, codecVars, ENABLE_HEADLESS_SNAPSHOT, srvVars, sendVars, cliVars, pageVars>>

(***************************************************************************)
(* The server: frames, sockets, backends.                                  *)
(***************************************************************************)
Frame(type, payload, message) ==
  [type |-> type, payload |-> payload, message |-> message]

\* ws.send(frame): the ws library drops a frame sent on a socket that is
\* not OPEN
Send(r, w, frame) ==
  IF w # 0 /\ sock[w].readyState = "open"
  THEN [r EXCEPT ![w] = Append(@, frame)]
  ELSE r

SendAll(r, w, frames) ==
  IF w # 0 /\ sock[w].readyState = "open"
  THEN [r EXCEPT ![w] = @ \o frames]
  ELSE r

ErrorFrame(message) == Frame(MsgERROR, <<>>, message)

\* a handleSshAuth / handleLocalAuth activation that has not happened yet
NoSession == [backend |-> "none", ws |-> 0, lastActivity |-> 0,
              headlessTerm |-> NoTerm, _ringBuf |-> <<>>,
              _ringOffset |-> 0, _ringFull |-> FALSE]

FreeBackend ==
  [mode         |-> "none",     \* 'ssh' | 'local'
   tabId        |-> 0,          \* msg.tabId
   ws           |-> 0,          \* the socket the AUTH came on
   hasSession   |-> FALSE,      \* `session` is not null
   session      |-> NoSession,
   conn         |-> "none",     \* none | connecting | ready | ended | closed
   stream       |-> "none",     \* none | open | ended | closed
   pty          |-> "none",     \* none | running | killed | exited
   batchChunks  |-> <<>>,
   batchPending |-> FALSE,
   immediates   |-> 0,          \* setImmediate(flushBatch) calls not yet run
   produced     |-> 0,          \* output chunks the backend has emitted
   input        |-> <<>>,       \* bytes written to the backend
   needDrain    |-> FALSE]      \* write() returned false, no 'drain' yet

\* the id the next activation gets
NextBackend == Cardinality({b \in AllBackends : backend[b].mode # "none"}) + 1

\* the backend has not been asked to close and has not closed
Running(bk) ==
  \/ bk.mode = "ssh"   /\ bk.stream = "open" /\ bk.conn = "ready"
  \/ bk.mode = "local" /\ bk.pty = "running"

InitServer ==
  /\ ENABLE_HEADLESS_SNAPSHOT \in BOOLEAN
  /\ sessions = [k \in AllKeys |-> 0]
  /\ backend = [b \in AllBackends |-> FreeBackend]
  /\ sock = [w \in AllSocks |-> [readyState |-> "new", tabId |-> 0,
                                hellos |-> 0, ignored |-> <<>>]]
  /\ recv = [w \in AllSocks |-> <<>>]
  /\ now = 0
  /\ attached = [b \in AllBackends |-> 0]
  /\ missed = [b \in AllBackends |-> <<>>]

(***************************************************************************)
(* closeSession, and the handlers that detach and reattach sockets.        *)
(***************************************************************************)
\* what closeSession does to the session's own backend: dispose the
\* headless terminal, stream.close() and conn.end(), or pty.kill()
TearDown(bk) ==
  [bk EXCEPT
     !.session.headlessTerm = NoTerm,
     !.stream = IF bk.mode = "ssh" /\ @ = "open" THEN "ended" ELSE @,
     !.conn   = IF bk.mode = "ssh" /\ @ = "ready" THEN "ended" ELSE @,
     !.pty    = IF bk.mode = "local" /\ @ = "running" THEN "killed" ELSE @]

\* a mutant of closeSession: without the test of sessions.has(tabId)
closeSessionUnguarded(st, tabId, b) ==
  [reg |-> [st.reg EXCEPT ![tabId] = 0],
   bks |-> [st.bks EXCEPT ![b] = TearDown(@)]]

\* closeSession(tabId, session) on a registry reg and backends bks:
\* the pair after it.  b is the backend whose session object is passed.
closeSession(st, tabId, b) ==
  IF st.reg[tabId] = 0 THEN st
  ELSE [reg |-> [st.reg EXCEPT ![tabId] = 0],
        bks |-> [st.bks EXCEPT ![b] = TearDown(@)]]

\* wss.on('connection'); sockets are numbered in the order in which their
\* first AUTH or RECONNECT frame arrives, and a socket is counted as
\* connected from just before that frame
Connection(w) ==
  /\ sock[w].readyState = "new"
  /\ \A v \in AllSocks : v < w => sock[v].hellos > 0 \/ sock[v].readyState = "closed"
  /\ sock' = [sock EXCEPT ![w].readyState = "open"]
  /\ UNCHANGED <<fnVars, codecVars, ringVars, sendVars, cliVars, pageVars, ENABLE_HEADLESS_SNAPSHOT>>
  /\ UNCHANGED <<sessions, backend, recv, now, attached, missed>>

\* the socket leaves OPEN (the peer's close frame arrived, or the heartbeat
\* called terminate()); its 'close' event has not been delivered yet
SockDrop(w) ==
  /\ sock[w].readyState = "open"
  /\ sock' = [sock EXCEPT ![w].readyState = "closing"]
  /\ UNCHANGED <<fnVars, codecVars, ringVars, sendVars, cliVars, pageVars, ENABLE_HEADLESS_SNAPSHOT>>
  /\ UNCHANGED <<sessions, backend, recv, now, attached, missed>>

\* a mutant of SockClose: the close handler destroys the session
SockCloseTearsDown(w) ==
  /\ sock[w].readyState = "closing"
  /\ sock' = [sock EXCEPT ![w].readyState = "closed"]
  /\ LET tabId == sock[w].tabId
         b     == IF tabId = 0 THEN 0 ELSE sessions[tabId]
         after == closeSession([reg |-> sessions, bks |-> backend], tabId, b)
     IN IF b = 0 THEN UNCHANGED <<sessions, backend>>
        ELSE sessions' = after.reg /\ backend' = after.bks
  /\ attached' = [b \in AllBackends |-> IF attached[b] = w THEN 0 ELSE attached[b]]
  /\ UNCHANGED <<fnVars, codecVars, ringVars, sendVars, cliVars, pageVars, ENABLE_HEADLESS_SNAPSHOT>>
  /\ UNCHANGED <<recv, now, missed>>

\* ws.on('close')
SockClose(w) ==
  /\ sock[w].readyState = "closing"
  /\ sock' = [sock EXCEPT ![w].readyState = "closed"]
  /\ LET tabId == sock[w].tabId
         b     == IF tabId = 0 THEN 0 ELSE sessions[tabId]
     IN backend' =
          IF b = 0 THEN backend
          ELSE [backend EXCEPT ![b].session.ws = 0,
                               ![b].session.lastActivity = now]
  /\ attached' = [b \in AllBackends |-> IF attached[b] = w THEN 0 ELSE attached[b]]
  /\ UNCHANGED <<fnVars, codecVars, ringVars, sendVars, cliVars, pageVars, ENABLE_HEADLESS_SNAPSHOT>>
  /\ UNCHANGED <<sessions, recv, now, missed>>

\* serializeSnapshot(term), as the screen the client is to restore
serializeSnapshot(term) == term.fed

\* a mutant of attachFrames: the acknowledgment is sent first
attachFramesAckFirst(session, snapshotOk) ==
  <<Frame(MsgRECONNECTED, <<>>, "")>> \o
  (IF session.headlessTerm.live /\ snapshotOk
   THEN <<Frame(MsgSNAPSHOT, serializeSnapshot(session.headlessTerm), "")>>
   ELSE IF Len(outputBuffer(session)) > 0
        THEN <<Frame(MsgREPLAY, outputBuffer(session), "")>>
        ELSE <<>>)

\* the frames attachToSession sends, in order; snapshotOk is FALSE when
\* serializeSnapshot or the encoding of its result throws
attachFrames(session, snapshotOk) ==
  (IF session.headlessTerm.live /\ snapshotOk
   THEN <<Frame(MsgSNAPSHOT, serializeSnapshot(session.headlessTerm), "")>>
   ELSE IF Len(outputBuffer(session)) > 0
        THEN <<Frame(MsgREPLAY, outputBuffer(session), "")>>
        ELSE <<>>)
  \o <<Frame(MsgRECONNECTED, <<>>, "")>>

\* a mutant of Reconnect: a key that names no session is acknowledged
ReconnectAlwaysAcks(w, key) ==
  /\ sock[w].readyState = "open"
  /\ sock[w].hellos < MaxHello
  /\ sock' = [sock EXCEPT ![w].tabId = key, ![w].hellos = @ + 1]
  /\ LET b == sessions[key]
     IN IF b # 0
        THEN /\ backend' = [backend EXCEPT ![b].session.ws = w,
                                           ![b].session.lastActivity = now]
             /\ recv' = SendAll(recv, w, attachFrames(backend[b].session, TRUE))
             /\ attached' = [attached EXCEPT ![b] = w]
             /\ missed' = [missed EXCEPT ![b] = <<>>]
        ELSE /\ recv' = Send(recv, w, Frame(MsgRECONNECTED, <<>>, ""))
             /\ UNCHANGED <<backend, attached, missed>>
  /\ UNCHANGED <<fnVars, codecVars, ringVars, sendVars, cliVars, pageVars, ENABLE_HEADLESS_SNAPSHOT>>
  /\ UNCHANGED <<sessions, now>>

\* case MsgType.RECONNECT, with attachToSession
Reconnect(w, key) ==
  /\ sock[w].readyState = "open"
  /\ sock[w].hellos < MaxHello
  /\ sock' = [sock EXCEPT ![w].tabId = key, ![w].hellos = @ + 1]
  /\ LET b == sessions[key]
     IN IF b # 0
        THEN \E snapshotOk \in BOOLEAN :
               /\ snapshotOk \/ backend[b].session.headlessTerm.live
               /\ backend' = [backend EXCEPT ![b].session.ws = w,
                                             ![b].session.lastActivity = now]
               /\ recv' = SendAll(recv, w, attachFrames(backend[b].session, snapshotOk))
               /\ attached' = [attached EXCEPT ![b] = w]
               /\ missed' = [missed EXCEPT ![b] = <<>>]
        ELSE /\ recv' = Send(recv, w, ErrorFrame("Session expired. Please reconnect."))
             /\ UNCHANGED <<backend, attached, missed>>
  /\ UNCHANGED <<fnVars, codecVars, ringVars, sendVars, cliVars, pageVars, ENABLE_HEADLESS_SNAPSHOT>>
  /\ UNCHANGED <<sessions, now>>

(***************************************************************************)
(* Frames that ws.on('message') ignores.  sock[w].ignored is the server's  *)
(* log of them: for each, which log line was written and how many AUTH or  *)
(* RECONNECT frames of the socket had been handled before it.              *)
(***************************************************************************)
\* byte strings that are not a whole frame
BadFrames ==
  {<<>>, <<MsgDATA>>, <<MsgAUTH, 1>>, <<MsgDATA, 2, 0, 7>>,
   <<MsgRECONNECT, 0, 1, 7, 7>>}

\* payloads JSON.parse() throws a SyntaxError for: "" and "{"
BadJson == {<<>>, <<123>>}

Ignored(w, line) ==
  /\ sock[w].readyState = "open"
  /\ Len(sock[w].ignored) < MaxBad
  /\ sock' = [sock EXCEPT ![w].ignored =
                Append(@, [line |-> line, after |-> sock[w].hellos])]
  /\ UNCHANGED <<sessions, backend, recv, now, attached, missed>>

\* a mutant of Malformed: the socket is closed on a frame that does not
\* decode
MalformedCloses(w) ==
  /\ \E bytes \in BadFrames : decodeFrame(bytes) = null
  /\ sock[w].readyState = "open"
  /\ Len(sock[w].ignored) < MaxBad
  /\ sock' = [sock EXCEPT ![w].readyState = "closing",
                          ![w].ignored = Append(@, [line |-> "Malformed frame, ignoring",
                                                    after |-> sock[w].hellos])]
  /\ UNCHANGED <<sessions, backend, recv, now, attached, missed>>
  /\ UNCHANGED <<fnVars, codecVars, ringVars, sendVars, cliVars, pageVars, ENABLE_HEADLESS_SNAPSHOT>>

\* ws.on('message') with bytes decodeFrame returns null for
Malformed(w) ==
  /\ \E bytes \in BadFrames : decodeFrame(bytes) = null
  /\ Ignored(w, "Malformed frame, ignoring")
  /\ UNCHANGED <<fnVars, codecVars, ringVars, sendVars, cliVars, pageVars, ENABLE_HEADLESS_SNAPSHOT>>

\* ws.on('message') with an AUTH, RECONNECT or RESIZE frame whose payload
\* is not JSON: JSON.parse throws in the first statement of the case and
\* the catch logs it
HandlerThrows(w) ==
  /\ \E type \in {MsgAUTH, MsgRECONNECT, MsgRESIZE}, payload \in BadJson :
       LET frame == decodeFrame(encodeFrame(type, payload))
       IN frame # null /\ frame.type = type /\ frame.payload \in BadJson
  /\ Ignored(w, "Error processing frame:")
  /\ UNCHANGED <<fnVars, codecVars, ringVars, sendVars, cliVars, pageVars, ENABLE_HEADLESS_SNAPSHOT>>

(***************************************************************************)
(* AUTH: handleAuth, handleLocalAuth, handleSshAuth.                       *)
(***************************************************************************)
\* process.env.ADMIN_PASSWORD
ADMIN_PASSWORD == "admin"

\* host.split('.').map(Number) for the hosts the model uses
HostParts(host) ==
  CASE host = "10.0.0.1"    -> <<10, 0, 0, 1>>
    [] host = "203.0.113.7" -> <<203, 0, 113, 7>>
    [] host = "127.0.0.2"   -> <<127, 0, 0, 2>>
    [] OTHER                -> <<>>

isPrivateIP(host) ==
  \/ host \in {"localhost", "127.0.0.1", "::1", "0.0.0.0"}
  \/ LET parts == HostParts(host)
     IN /\ Len(parts) = 4
        /\ \/ parts[1] = 10
           \/ parts[1] = 172 /\ parts[2] >= 16 /\ parts[2] <= 31
           \/ parts[1] = 192 /\ parts[2] = 168

\* the AUTH payloads clients send in Spec
AuthMessages ==
  {[tabId |-> k, mode |-> m.mode, host |-> m.host, username |-> m.username,
    password |-> m.password, privateKey |-> ""] :
     k \in Keys,
     m \in {[mode |-> "ssh",   host |-> "203.0.113.7", username |-> "u", password |-> "pw"],
            [mode |-> "ssh",   host |-> "10.0.0.1",    username |-> "u", password |-> "pw"],
            [mode |-> "local", host |-> "",            username |-> "",  password |-> "admin"],
            [mode |-> "local", host |-> "",            username |-> "",  password |-> "pw"]}}

\* the AUTH payloads clients send in SpecAdmit: for the remote shell a
\* public host, a private one and one of the loopback range, with and
\* without credentials, and messages with a field missing
AdmitMessages ==
  {[tabId |-> k, mode |-> m.mode, host |-> m.host, username |-> m.username,
    password |-> m.password, privateKey |-> ""] :
     k \in AdmitKeys,
     m \in {[mode |-> "ssh",   host |-> "203.0.113.7", username |-> "u", password |-> "pw"],
            [mode |-> "ssh",   host |-> "203.0.113.7", username |-> "u", password |-> ""],
            [mode |-> "ssh",   host |-> "",            username |-> "u", password |-> "pw"],
            [mode |-> "ssh",   host |-> "10.0.0.1",    username |-> "u", password |-> "pw"],
            [mode |-> "ssh",   host |-> "10.0.0.1",    username |-> "u", password |-> ""],
            [mode |-> "ssh",   host |-> "127.0.0.2",   username |-> "u", password |-> "pw"],
            [mode |-> "local", host |-> "",            username |-> "",  password |-> "admin"],
            [mode |-> "local", host |-> "",            username |-> "",  password |-> "pw"]}}

\* the message of the ERROR frame handleSshAuth answers with before it
\* connects, "" when the message passes its checks
sshAuthError(msg) ==
  IF msg.host = "" \/ msg.username = "" THEN "Host and username are required"
  ELSE IF isPrivateIP(msg.host)
       THEN "Connections to local/private addresses are not allowed."
  ELSE IF msg.password = "" /\ msg.privateKey = ""
       THEN "Password or private key is required"
  ELSE ""

\* the same for handleLocalAuth, before it spawns the pty
localAuthError(msg) ==
  IF ADMIN_PASSWORD = ""
  THEN "Local mode is disabled (ADMIN_PASSWORD not set on server)"
  ELSE IF msg.password # ADMIN_PASSWORD THEN "Incorrect Admin Password"
  ELSE ""

\* a mutant of authError: handleAuth without its capacity check
authErrorNoCapacity(msg) ==
  IF msg.mode = "local" THEN localAuthError(msg) ELSE sshAuthError(msg)

\* the capacity check of handleAuth, then the checks of the mode's handler
authError(msg) ==
  IF Cardinality({k \in AllKeys : sessions[k] # 0}) >= MAX_TOTAL_SESSIONS
  THEN "Server is at maximum session capacity. Please try again later."
  ELSE IF msg.mode = "local" THEN localAuthError(msg)
  ELSE sshAuthError(msg)

\* case MsgType.AUTH, refused before a backend is created: a failed check,
\* or conn.connect() / nodePty.spawn() throwing
AuthRefused(w, msg) ==
  /\ sock[w].readyState = "open"
  /\ sock[w].hellos < MaxHello
  /\ sock' = [sock EXCEPT ![w].tabId = msg.tabId, ![w].hellos = @ + 1]
  /\ \E message \in {authError(msg),
                     IF msg.mode = "local" THEN "Local terminal failed"
                     ELSE "Connection failed"} :
       /\ message # ""
       /\ authError(msg) # "" => message = authError(msg)
       /\ recv' = Send(recv, w, ErrorFrame(message))
  /\ UNCHANGED <<fnVars, codecVars, ringVars, sendVars, cliVars, pageVars, ENABLE_HEADLESS_SNAPSHOT>>
  /\ UNCHANGED <<sessions, backend, now, attached, missed>>

\* case MsgType.AUTH with mode 'local': the pty is spawned, the session is
\* created and registered by onReady, CONNECTED is sent
AuthLocal(w, msg) ==
  /\ sock[w].readyState = "open"
  /\ sock[w].hellos < MaxHello
  /\ msg.mode = "local"
  /\ authError(msg) = ""
  /\ NextBackend \in AllBackends
  /\ sock' = [sock EXCEPT ![w].tabId = msg.tabId, ![w].hellos = @ + 1]
  /\ backend' = [backend EXCEPT ![NextBackend] =
       [FreeBackend EXCEPT !.mode = "local", !.tabId = msg.tabId, !.ws = w,
                           !.pty = "running", !.hasSession = TRUE,
                           !.session = createSessionState("local", w)]]
  /\ sessions' = [sessions EXCEPT ![msg.tabId] = NextBackend]
  /\ recv' = Send(recv, w, Frame(MsgCONNECTED, <<>>, ""))
  /\ attached' = [attached EXCEPT ![NextBackend] = w]
  /\ UNCHANGED <<fnVars, codecVars, ringVars, sendVars, cliVars, pageVars, ENABLE_HEADLESS_SNAPSHOT>>
  /\ UNCHANGED <<now, missed>>

\* case MsgType.AUTH with mode 'ssh': conn.connect(config) is called
AuthSsh(w, msg) ==
  /\ sock[w].readyState = "open"
  /\ sock[w].hellos < MaxHello
  /\ msg.mode = "ssh"
  /\ authError(msg) = ""
  /\ NextBackend \in AllBackends
  /\ sock' = [sock EXCEPT ![w].tabId = msg.tabId, ![w].hellos = @ + 1]
  /\ backend' = [backend EXCEPT ![NextBackend] =
       [FreeBackend EXCEPT !.mode = "ssh", !.tabId = msg.tabId, !.ws = w,
                           !.conn = "connecting"]]
  /\ UNCHANGED <<fnVars, codecVars, ringVars, sendVars, cliVars, pageVars, ENABLE_HEADLESS_SNAPSHOT>>
  /\ UNCHANGED <<sessions, recv, now, attached, missed>>

\* the tmux commands handleSshAuth writes to a new shell, as one byte
TmuxBootstrap == <<0>>

\* a mutant of SshReady: a shell that fails to open is reported as
\* connected
SshReadyShellErrorConnects(b) ==
  /\ backend[b].conn = "connecting"
  /\ backend' = [backend EXCEPT ![b].conn = "ended"]
  /\ recv' = Send(recv, backend[b].ws, Frame(MsgCONNECTED, <<>>, ""))
  /\ UNCHANGED <<fnVars, codecVars, ringVars, sendVars, cliVars, pageVars, ENABLE_HEADLESS_SNAPSHOT>>
  /\ UNCHANGED <<sessions, sock, now, attached, missed>>

\* conn.on('ready') and the conn.shell callback
SshReady(b) ==
  /\ backend[b].conn = "connecting"
  /\ LET ws == backend[b].ws
     IN \E shellOk \in BOOLEAN :
          IF shellOk
          THEN /\ backend' = [backend EXCEPT
                    ![b].conn = "ready", ![b].stream = "open",
                    ![b].input = TmuxBootstrap,
                    ![b].hasSession = TRUE,
                    ![b].session = createSessionState("ssh", ws)]
               /\ recv' = Send(recv, ws, Frame(MsgCONNECTED, <<>>, ""))
               /\ sessions' = [sessions EXCEPT ![sock[ws].tabId] = b]
               /\ attached' = [attached EXCEPT ![b] =
                    IF sock[ws].readyState = "closed" THEN 0 ELSE ws]
          ELSE /\ backend' = [backend EXCEPT ![b].conn = "ended"]
               /\ recv' = Send(recv, ws, ErrorFrame("Shell error"))
               /\ UNCHANGED <<sessions, attached>>
  /\ UNCHANGED <<fnVars, codecVars, ringVars, sendVars, cliVars, pageVars, ENABLE_HEADLESS_SNAPSHOT>>
  /\ UNCHANGED <<sock, now, missed>>

\* conn.on('error'); the connection closes after it
SshError(b) ==
  /\ backend[b].conn \in {"connecting", "ready"}
  /\ backend' = [backend EXCEPT ![b].conn = "ended"]
  /\ recv' = Send(recv, backend[b].ws, ErrorFrame("SSH error"))
  /\ UNCHANGED <<fnVars, codecVars, ringVars, sendVars, cliVars, pageVars, ENABLE_HEADLESS_SNAPSHOT>>
  /\ UNCHANGED <<sessions, sock, now, attached, missed>>

(***************************************************************************)
(* DATA, RESIZE, PING.                                                     *)
(***************************************************************************)
\* the keystroke of a DATA frame
Keystroke == <<5>>

\* the session the socket's tabId names in the registry, 0 when none
SessionOf(w) == IF sock[w].tabId = 0 THEN 0 ELSE sessions[sock[w].tabId]

\* DATA frames written to the backend so far
Keystrokes(bk) ==
  Len(bk.input) - (IF bk.mode = "ssh" THEN Len(TmuxBootstrap) ELSE 0)

\* writeToSession(session, payload); accepted is what stream.write returns
writeToSession(bk, payload, accepted) ==
  IF bk.session.backend = "ssh" /\ bk.stream = "open"
  THEN [bk EXCEPT !.input = @ \o payload, !.needDrain = ~accepted]
  ELSE IF bk.session.backend = "local" /\ bk.pty = "running"
  THEN [bk EXCEPT !.input = @ \o payload]
  ELSE bk

\* case MsgType.DATA
Data(w) ==
  /\ sock[w].readyState = "open"
  /\ LET b == SessionOf(w)
     IN IF b = 0 THEN UNCHANGED backend
        ELSE /\ Keystrokes(backend[b]) < MaxIn
             /\ \E accepted \in BOOLEAN :
                  /\ accepted => ~backend[b].needDrain
                  /\ backend' = [backend EXCEPT
                       ![b] = [writeToSession(@, Keystroke, accepted)
                                 EXCEPT !.session.lastActivity = now]]
  /\ UNCHANGED <<fnVars, codecVars, ringVars, sendVars, cliVars, pageVars, ENABLE_HEADLESS_SNAPSHOT>>
  /\ UNCHANGED <<sessions, sock, recv, now, attached, missed>>

\* the channel's 'drain' event
Drain(b) ==
  /\ backend[b].needDrain
  /\ backend[b].stream = "open"
  /\ backend' = [backend EXCEPT ![b].needDrain = FALSE]
  /\ UNCHANGED <<fnVars, codecVars, ringVars, sendVars, cliVars, pageVars, ENABLE_HEADLESS_SNAPSHOT>>
  /\ UNCHANGED <<sessions, sock, recv, now, attached, missed>>

\* case MsgType.RESIZE: resizeSession changes the window size, which the
\* model does not hold, and the frame counts as activity
Resize(w) ==
  /\ sock[w].readyState = "open"
  /\ LET b == SessionOf(w)
     IN backend' = IF b = 0 THEN backend
                   ELSE [backend EXCEPT ![b].session.lastActivity = now]
  /\ UNCHANGED <<fnVars, codecVars, ringVars, sendVars, cliVars, pageVars, ENABLE_HEADLESS_SNAPSHOT>>
  /\ UNCHANGED <<sessions, sock, recv, now, attached, missed>>

\* case MsgType.PING
Ping(w) ==
  /\ sock[w].readyState = "open"
  /\ LET b == SessionOf(w)
     IN backend' = IF b = 0 THEN backend
                   ELSE [backend EXCEPT ![b].session.lastActivity = now]
  /\ UNCHANGED <<fnVars, codecVars, ringVars, sendVars, cliVars, pageVars, ENABLE_HEADLESS_SNAPSHOT>>
  /\ UNCHANGED <<sessions, sock, recv, now, attached, missed>>

(***************************************************************************)
(* Backend output and its batching.                                        *)
(***************************************************************************)
RECURSIVE Concat(_)
\* Buffer.concat(chunks)
Concat(chunks) ==
  IF chunks = <<>> THEN <<>> ELSE Head(chunks) \o Concat(Tail(chunks))

\* a mutant of flushBatch: the batch is sent and kept
flushBatchKeeps(bk) ==
  IF bk.batchChunks = <<>>
  THEN [bk |-> [bk EXCEPT !.batchPending = FALSE], frames |-> <<>>]
  ELSE [bk |-> [bk EXCEPT !.batchPending = FALSE],
        frames |-> <<Frame(MsgSSH_DATA, Concat(bk.batchChunks), "")>>]

\* flushBatch(): the activation after it, and the frames it sends to
\* session.ws (sent only if that socket is OPEN)
flushBatch(bk) ==
  IF bk.batchChunks = <<>>
  THEN [bk |-> [bk EXCEPT !.batchPending = FALSE], frames |-> <<>>]
  ELSE [bk |-> [bk EXCEPT !.batchPending = FALSE, !.batchChunks = <<>>],
        frames |-> <<Frame(MsgSSH_DATA, Concat(bk.batchChunks), "")>>]

\* enqueueChunk(data) (the body of pty.onData is the same code)
enqueueChunk(bk, data) ==
  LET b1      == [bk EXCEPT !.session = appendOutput(@, data)]
      isFirst == b1.batchChunks = <<>>
      b2      == [b1 EXCEPT !.batchChunks = Append(@, data)]
      flushed == IF isFirst THEN flushBatch(b2) ELSE [bk |-> b2, frames |-> <<>>]
      b3      == flushed.bk
  IN [bk |-> IF ~b3.batchPending
             THEN [b3 EXCEPT !.batchPending = TRUE, !.immediates = @ + 1]
             ELSE b3,
      frames |-> flushed.frames]

\* the backend's output still reaches the handlers
Producing(bk) ==
  /\ bk.hasSession
  /\ \/ bk.mode = "ssh" /\ bk.stream \in {"open", "ended"}
                        /\ bk.conn \in {"ready", "ended"}
     \/ bk.mode = "local" /\ bk.pty \in {"running", "killed"}

\* stream.on('data'), stream.stderr.on('data'), pty.onData: the backend
\* emits its next chunk
Emit(b, limit) ==
  /\ Producing(backend[b])
  /\ backend[b].produced < limit
  /\ LET data == <<backend[b].produced + 1>>
         r    == enqueueChunk(backend[b], data)
     IN /\ backend' = [backend EXCEPT ![b] = [r.bk EXCEPT !.produced = @ + 1]]
        /\ recv' = SendAll(recv, backend[b].session.ws, r.frames)
        /\ missed' = [missed EXCEPT ![b] =
                        IF attached[b] = 0 THEN @ \o data ELSE @]
  /\ UNCHANGED <<fnVars, codecVars, ringVars, sendVars, cliVars, pageVars, ENABLE_HEADLESS_SNAPSHOT>>
  /\ UNCHANGED <<sessions, sock, now, attached>>

BackendData(b) == Emit(b, MaxOut)

\* the same, for a backend that emits a burst of chunks
BurstData(b) == Emit(b, MaxBurst)

\* a setImmediate(flushBatch) callback runs
Immediate(b) ==
  /\ backend[b].immediates > 0
  /\ LET r == flushBatch(backend[b])
     IN /\ backend' = [backend EXCEPT ![b] = [r.bk EXCEPT !.immediates = @ - 1]]
        /\ recv' = SendAll(recv, backend[b].session.ws, r.frames)
  /\ UNCHANGED <<fnVars, codecVars, ringVars, sendVars, cliVars, pageVars, ENABLE_HEADLESS_SNAPSHOT>>
  /\ UNCHANGED <<sessions, sock, now, attached, missed>>

(***************************************************************************)
(* SpecSend: flushBatch applied to batches of any size.                    *)
(***************************************************************************)
\* the chunks a batch is made of in SpecSend: short ones, one of the
\* largest payload length a frame can carry, and one a byte longer
SendChunks ==
  (SeqUpTo(OutBytes, MaxChunk) \ {<<>>})
    \cup {LongPayload(MaxU16), LongPayload(MaxU16 + 1)}

InitSend ==
  /\ outBatch \in {batch \in SeqUpTo(SendChunks, MaxBatch) : TRUE}
  /\ wsOpen \in BOOLEAN
  /\ encodeCalls = <<>>
  /\ sendStage = "input"

InitSendIdle ==
  /\ outBatch = <<>> /\ wsOpen = FALSE
  /\ encodeCalls = <<>> /\ sendStage = "input"

\* flushBatch() runs on the batch; encodeFrame is called, with the
\* combined payload, only when session.ws is OPEN
Flush ==
  /\ sendStage = "input"
  /\ LET r == flushBatch([FreeBackend EXCEPT !.batchChunks = outBatch,
                                             !.batchPending = TRUE])
     IN /\ encodeCalls' =
             IF wsOpen
             THEN [i \in 1..Len(r.frames) |-> Len(r.frames[i].payload)]
             ELSE <<>>
        /\ outBatch' = r.bk.batchChunks
  /\ sendStage' = "flushed"
  /\ UNCHANGED wsOpen
  /\ UNCHANGED <<fnVars, codecVars, ringVars, ENABLE_HEADLESS_SNAPSHOT, srvVars, cliVars, pageVars>>

(***************************************************************************)
(* Backend termination and the expiry sweep.                               *)
(***************************************************************************)
\* the part stream.on('close'), conn.on('close') and pty.onExit share once
\* a session exists: DISCONNECTED to session.ws, then closeSession
Terminated(b, bks) ==
  LET after == closeSession([reg |-> sessions, bks |-> bks], backend[b].tabId, b)
  IN /\ recv' = Send(recv, backend[b].session.ws, Frame(MsgDISCONNECTED, <<>>, ""))
     /\ sessions' = after.reg
     /\ backend' = after.bks

\* stream.on('close')
StreamClose(b) ==
  /\ backend[b].stream \in {"open", "ended"}
  /\ Terminated(b, [backend EXCEPT ![b].stream = "closed",
                                   ![b].batchPending = FALSE,
                                   ![b].batchChunks = <<>>])
  /\ UNCHANGED <<fnVars, codecVars, ringVars, sendVars, cliVars, pageVars, ENABLE_HEADLESS_SNAPSHOT>>
  /\ UNCHANGED <<sock, now, attached, missed>>

\* conn.on('close'); the ssh2 client closes its channels, which emits
\* their 'close', before it emits its own
ConnClose(b) ==
  /\ backend[b].conn \in {"ready", "ended"}
  /\ backend[b].stream \in {"none", "closed"}
  /\ IF backend[b].hasSession
     THEN Terminated(b, [backend EXCEPT ![b].conn = "closed"])
     ELSE /\ backend' = [backend EXCEPT ![b].conn = "closed"]
          /\ UNCHANGED <<sessions, recv>>
  /\ UNCHANGED <<fnVars, codecVars, ringVars, sendVars, cliVars, pageVars, ENABLE_HEADLESS_SNAPSHOT>>
  /\ UNCHANGED <<sock, now, attached, missed>>

\* pty.onExit
PtyExit(b) ==
  /\ backend[b].pty \in {"running", "killed"}
  /\ Terminated(b, [backend EXCEPT ![b].pty = "exited",
                                   ![b].batchPending = FALSE,
                                   ![b].batchChunks = <<>>])
  /\ UNCHANGED <<fnVars, codecVars, ringVars, sendVars, cliVars, pageVars, ENABLE_HEADLESS_SNAPSHOT>>
  /\ UNCHANGED <<sock, now, attached, missed>>

\* a mutant of Expired: the sweep spares detached sessions
ExpiredAttachedOnly(session, t) ==
  session.ws # 0 /\ t - session.lastActivity > SESSION_TIMEOUT_MS

\* the test of the cleanup timer
Expired(session, t) == t - session.lastActivity > SESSION_TIMEOUT_MS

\* how many sweep intervals pass before a sweep that follows other events:
\* the timeout exactly, and one interval more
Elapses == {SESSION_TIMEOUT_MS \div SWEEP_INTERVAL_MS,
            SESSION_TIMEOUT_MS \div SWEEP_INTERVAL_MS + 1}

\* the session-cleanup timer fires, n intervals after the events before it
\* (the sweeps in between found what this one finds)
Sweep(n) ==
  /\ now + n * SWEEP_INTERVAL_MS <= MaxTicks * SWEEP_INTERVAL_MS
  /\ now' = now + n * SWEEP_INTERVAL_MS
  /\ LET gone == {k \in AllKeys : sessions[k] # 0
                               /\ Expired(backend[sessions[k]].session, now')}
     IN /\ sessions' = [k \in AllKeys |-> IF k \in gone THEN 0 ELSE sessions[k]]
        /\ backend' = [b \in AllBackends |->
                         IF \E k \in gone : sessions[k] = b
                         THEN TearDown(backend[b]) ELSE backend[b]]
  /\ UNCHANGED <<fnVars, codecVars, ringVars, sendVars, cliVars, pageVars, ENABLE_HEADLESS_SNAPSHOT>>
  /\ UNCHANGED <<sock, recv, attached, missed>>

(***************************************************************************)
(* The server's next-state relation.                                       *)
(***************************************************************************)
Next ==
  \/ \E w \in Socks : Connection(w)
  \/ \E w \in Socks : SockDrop(w)
  \/ \E w \in Socks : SockClose(w)
  \/ \E w \in Socks, msg \in AuthMessages : AuthRefused(w, msg)
  \/ \E w \in Socks, msg \in AuthMessages :
       NextBackend \in BackendIds /\ AuthLocal(w, msg)
  \/ \E w \in Socks, msg \in AuthMessages :
       NextBackend \in BackendIds /\ AuthSsh(w, msg)
  \/ \E w \in Socks, key \in Keys : Reconnect(w, key)
  \/ \E w \in Socks : Data(w)
  \/ \E w \in Socks : Resize(w)
  \/ \E w \in Socks : Ping(w)
  \/ \E b \in BackendIds : SshReady(b)
  \/ \E b \in BackendIds : SshError(b)
  \/ \E b \in BackendIds : Drain(b)
  \/ \E b \in BackendIds : BackendData(b)
  \/ \E b \in BackendIds : Immediate(b)
  \/ \E b \in BackendIds : StreamClose(b)
  \/ \E b \in BackendIds : ConnClose(b)
  \/ \E b \in BackendIds : PtyExit(b)
  \/ \E n \in Elapses : Sweep(n)

(***************************************************************************)
(* The client: the WebSocket connection effect of Terminal.tsx.  Time is   *)
(* counted in seconds (every delay of tryReconnect is a whole number of    *)
(* them) and socket events happen at the instants at which timers fire; a  *)
(* socket that fails gets an 'error' event and then a 'close' event, one   *)
(* that was open may also get 'close' alone.                               *)
(***************************************************************************)
\* the attempts after which tryReconnect shows the manual control
MAX_RECONNECT_ATTEMPTS == 5
BACKOFF_BASE_MS == 1000
BACKOFF_CAP_MS == 30000

backoffDelay(attempt) == Min(BACKOFF_BASE_MS * 2^attempt, BACKOFF_CAP_MS)

\* new WebSocket(wsUrl) with the handlers of connect() (hello "AUTH") or
\* of tryReconnect (hello "RECONNECT"); auto tells the sockets created by
\* a timer from those created by mounting or by the manual control
NewSocket(hello, auto) ==
  [hello |-> hello, auto |-> auto, state |-> "connecting", sent |-> <<>>,
   acked |-> FALSE, refused |-> FALSE]

InitClient ==
  /\ cSock = <<NewSocket("AUTH", FALSE)>>
  /\ wsRef = 1
  /\ isConnecting = TRUE
  /\ reconnectAttempts = 0
  /\ showReconnectBtn = FALSE
  /\ timers = <<>>
  /\ scheduled = <<>>
  /\ typed = 0
  /\ dropped = {}

\* the variables tryReconnect reads and writes
Controller ==
  [reconnectAttempts |-> reconnectAttempts,
   showReconnectBtn |-> showReconnectBtn,
   timers |-> timers, scheduled |-> scheduled]

\* tryReconnect(), called for an event of socket cause
tryReconnect(c, cause) ==
  LET delay == backoffDelay(c.reconnectAttempts)
      n     == c.reconnectAttempts + 1
  IN IF n > MAX_RECONNECT_ATTEMPTS
     THEN [c EXCEPT !.reconnectAttempts = n, !.showReconnectBtn = TRUE]
     ELSE [c EXCEPT !.reconnectAttempts = n,
                    !.timers = Append(@, [left |-> delay \div 1000]),
                    !.scheduled = Append(@, [cause |-> cause, delay |-> delay,
                                             attempt |-> n - 1])]

SetController(c) ==
  /\ reconnectAttempts' = c.reconnectAttempts
  /\ showReconnectBtn' = c.showReconnectBtn
  /\ timers' = c.timers
  /\ scheduled' = c.scheduled

\* onopen: the socket becomes OPEN and its hello frame is sent
ClientOpen(i) ==
  /\ cSock[i].state = "connecting"
  /\ cSock' = [cSock EXCEPT ![i].state = "open",
                            ![i].sent = <<[type |-> cSock[i].hello, key |-> 0]>>]
  /\ UNCHANGED <<wsRef, isConnecting, reconnectAttempts, showReconnectBtn,
                 timers, scheduled, typed, dropped>>
  /\ UNCHANGED <<fnVars, codecVars, ringVars, sendVars, srvVars, pageVars,
                 ENABLE_HEADLESS_SNAPSHOT>>

\* handleMessage for the server's answer to the hello frame: CONNECTED or
\* RECONNECTED (with the RESIZE that follows it), or ERROR
ClientAnswer(i, ok) ==
  /\ cSock[i].state = "open"
  /\ ~cSock[i].acked
  /\ IF ok
     THEN /\ isConnecting' = FALSE
          /\ reconnectAttempts' = 0
          /\ showReconnectBtn' = FALSE
          /\ cSock' = [cSock EXCEPT
               ![i].acked = TRUE,
               ![wsRef].sent =
                 IF cSock[i].hello = "RECONNECT" /\ cSock[wsRef].state = "open"
                 THEN Append(@, [type |-> "RESIZE", key |-> 0]) ELSE @]
     ELSE /\ cSock' = [cSock EXCEPT ![i].acked = TRUE, ![i].refused = TRUE]
          /\ UNCHANGED <<isConnecting, reconnectAttempts, showReconnectBtn>>
  /\ UNCHANGED <<wsRef, timers, scheduled, typed, dropped>>
  /\ UNCHANGED <<fnVars, codecVars, ringVars, sendVars, srvVars, pageVars,
                 ENABLE_HEADLESS_SNAPSHOT>>

\* onclose, on the controller c
onclose(c, i) ==
  IF cSock[i].hello = "AUTH"
  THEN IF ~isConnecting THEN tryReconnect(c, i) ELSE c
  ELSE IF c.reconnectAttempts <= MAX_RECONNECT_ATTEMPTS
       THEN tryReconnect(c, i) ELSE c

\* onerror, on the controller c
onerror(c, i) ==
  IF cSock[i].hello = "RECONNECT" THEN tryReconnect(c, i) ELSE c

\* the connection of socket i fails: the browser fires 'error' and then
\* 'close' at it, in one task
ClientFail(i) ==
  /\ cSock[i].state \in {"connecting", "open"}
  /\ cSock' = [cSock EXCEPT ![i].state = "closed"]
  /\ SetController(onclose(onerror(Controller, i), i))
  /\ UNCHANGED <<wsRef, isConnecting, typed, dropped>>
  /\ UNCHANGED <<fnVars, codecVars, ringVars, sendVars, srvVars, pageVars,
                 ENABLE_HEADLESS_SNAPSHOT>>

\* the open socket i is closed cleanly: 'close' alone
ClientClose(i) ==
  /\ cSock[i].state = "open"
  /\ cSock' = [cSock EXCEPT ![i].state = "closed"]
  /\ SetController(onclose(Controller, i))
  /\ UNCHANGED <<wsRef, isConnecting, typed, dropped>>
  /\ UNCHANGED <<fnVars, codecVars, ringVars, sendVars, srvVars, pageVars,
                 ENABLE_HEADLESS_SNAPSHOT>>

\* the seconds until the first of the pending timers is due
NextDue ==
  CHOOSE n \in 0..(BACKOFF_CAP_MS \div 1000) :
    /\ \E t \in 1..Len(timers) : timers[t].left = n
    /\ \A t \in 1..Len(timers) : timers[t].left >= n

\* time passes until a timer is due; a timer that is due fires before
\* time goes on
Wait ==
  /\ timers # <<>>
  /\ NextDue > 0
  /\ timers' = [t \in 1..Len(timers) |-> [left |-> timers[t].left - NextDue]]
  /\ UNCHANGED <<cSock, wsRef, isConnecting, reconnectAttempts,
                 showReconnectBtn, scheduled, typed, dropped>>
  /\ UNCHANGED <<fnVars, codecVars, ringVars, sendVars, srvVars, pageVars,
                 ENABLE_HEADLESS_SNAPSHOT>>

\* the timers without the first one that is due
Fired ==
  LET t == CHOOSE u \in 1..Len(timers) :
             timers[u].left = 0 /\ \A v \in 1..(u - 1) : timers[v].left > 0
  IN SubSeq(timers, 1, t - 1) \o SubSeq(timers, t + 1, Len(timers))

\* a mutant of TimerFires: the new socket has the handlers of connect()
TimerFiresAuth ==
  /\ \E t \in 1..Len(timers) : timers[t].left = 0
  /\ Len(cSock) < MaxClientSocks
  /\ timers' = Fired
  /\ cSock' = Append(cSock, NewSocket("AUTH", TRUE))
  /\ wsRef' = Len(cSock) + 1
  /\ UNCHANGED <<isConnecting, reconnectAttempts, showReconnectBtn,
                 scheduled, typed, dropped>>
  /\ UNCHANGED <<fnVars, codecVars, ringVars, sendVars, srvVars, pageVars,
                 ENABLE_HEADLESS_SNAPSHOT>>

\* the setTimeout callback of tryReconnect
TimerFires ==
  /\ \E t \in 1..Len(timers) : timers[t].left = 0
  /\ Len(cSock) < MaxClientSocks
  /\ timers' = Fired
  /\ cSock' = Append(cSock, NewSocket("RECONNECT", TRUE))
  /\ wsRef' = Len(cSock) + 1
  /\ UNCHANGED <<isConnecting, reconnectAttempts, showReconnectBtn,
                 scheduled, typed, dropped>>
  /\ UNCHANGED <<fnVars, codecVars, ringVars, sendVars, srvVars, pageVars,
                 ENABLE_HEADLESS_SNAPSHOT>>

\* what the user who selects manual retry presumes of the session
Presumptions == {"gone", "alive"}

\* reconnectFnRef.current(), the onClick of the Reconnect button, which
\* is rendered while showReconnectBtn is true; it calls connect().  The
\* button is the only control and its handler takes no argument: what the
\* user presumes has no way in
ManualRetry(presumed) ==
  /\ showReconnectBtn
  /\ Len(cSock) < MaxClientSocks
  /\ reconnectAttempts' = 0
  /\ showReconnectBtn' = FALSE
  /\ cSock' = Append(cSock, NewSocket("AUTH", FALSE))
  /\ wsRef' = Len(cSock) + 1
  /\ UNCHANGED <<isConnecting, timers, scheduled, typed, dropped>>
  /\ UNCHANGED <<fnVars, codecVars, ringVars, sendVars, srvVars, pageVars,
                 ENABLE_HEADLESS_SNAPSHOT>>

\* some socket of the client is OPEN
SomeOpen == \E i \in 1..Len(cSock) : cSock[i].state = "open"

\* a mutant of handleData: the keystroke is given to the current socket
\* whatever its state, to be sent when it opens
handleDataQueued ==
  /\ typed < MaxTyped
  /\ typed' = typed + 1
  /\ cSock' = [cSock EXCEPT ![wsRef].sent =
                  Append(@, [type |-> "DATA", key |-> typed + 1])]
  /\ dropped' = IF SomeOpen THEN dropped ELSE dropped \cup {typed + 1}
  /\ UNCHANGED <<wsRef, isConnecting, reconnectAttempts, showReconnectBtn,
                 timers, scheduled>>
  /\ UNCHANGED <<fnVars, codecVars, ringVars, sendVars, srvVars, pageVars,
                 ENABLE_HEADLESS_SNAPSHOT>>

\* handleData(data) for the next keystroke
handleData ==
  /\ typed < MaxTyped
  /\ typed' = typed + 1
  /\ cSock' = IF cSock[wsRef].state = "open"
              THEN [cSock EXCEPT ![wsRef].sent =
                      Append(@, [type |-> "DATA", key |-> typed + 1])]
              ELSE cSock
  /\ dropped' = IF SomeOpen THEN dropped ELSE dropped \cup {typed + 1}
  /\ UNCHANGED <<wsRef, isConnecting, reconnectAttempts, showReconnectBtn,
                 timers, scheduled>>
  /\ UNCHANGED <<fnVars, codecVars, ringVars, sendVars, srvVars, pageVars,
                 ENABLE_HEADLESS_SNAPSHOT>>

NextClient ==
  \/ \E i \in 1..Len(cSock) : ClientOpen(i)
  \/ \E i \in 1..Len(cSock), ok \in BOOLEAN : ClientAnswer(i, ok)
  \/ \E i \in 1..Len(cSock) : ClientFail(i)
  \/ \E i \in 1..Len(cSock) : ClientClose(i)
  \/ Wait
  \/ TimerFires
  \/ \E presumed \in Presumptions : ManualRetry(presumed)
  \/ handleData

(***************************************************************************)
(* The page: the tabs of Home and the tabId its Terminal components use.   *)
(***************************************************************************)
\* LOCAL_TAB_ID, and `tab-${Date.now()}`
LOCAL_TAB_ID == [tab |-> "local-machine-terminal", at |-> 0]
SshTabId(t) == [tab |-> "tab-", at |-> t]

InitPage ==
  /\ sessionStorage = {}
  /\ tabs = <<>>
  /\ dateNow = 1
  /\ loads = 1
  /\ presented = <<>>

\* sessionStorage.getItem(key): the stored value, null when there is none
getItem(store, key) ==
  IF \E item \in store : item[1] = key
  THEN (CHOOSE item \in store : item[1] = key)[2]
  ELSE null

\* getOrCreateTabId(propTabId): the tabId and the store after the call
getOrCreateTabId(store, propTabId) ==
  LET key    == <<"ssh_tab_id_", propTabId>>
      stored == getItem(store, key)
  IN IF stored # null THEN [tabId |-> stored, store |-> store]
     ELSE [tabId |-> propTabId,
           store |-> {item \in store : item[1] # key} \cup {<<key, propTabId>>}]

\* a mutant of getOrCreateTabId: nothing is read from the store
getOrCreateTabIdFresh(store, propTabId) ==
  [tabId |-> propTabId, store |-> store]

\* handleConnect(config), and the mounting of the Terminal of the new tab
handleConnect(mode) ==
  /\ Len(tabs) < MaxTabs
  /\ LET tabId == IF mode = "local" THEN LOCAL_TAB_ID ELSE SshTabId(dateNow)
         got   == getOrCreateTabId(sessionStorage, tabId)
     IN IF mode = "local" /\ \E t \in 1..Len(tabs) : tabs[t].mode = "local"
        THEN UNCHANGED <<tabs, sessionStorage, presented>>
        ELSE /\ tabs' = Append(tabs, [id |-> tabId, mode |-> mode])
             /\ sessionStorage' = got.store
             /\ presented' = Append(presented,
                                [tabId |-> got.tabId, mode |-> mode, load |-> loads])
  /\ UNCHANGED <<dateNow, loads>>
  /\ UNCHANGED <<fnVars, codecVars, ringVars, sendVars, srvVars, cliVars,
                 ENABLE_HEADLESS_SNAPSHOT>>

\* a millisecond passes
Millisecond ==
  /\ dateNow < MaxDateNow
  /\ dateNow' = dateNow + 1
  /\ UNCHANGED <<sessionStorage, tabs, loads, presented>>
  /\ UNCHANGED <<fnVars, codecVars, ringVars, sendVars, srvVars, cliVars,
                 ENABLE_HEADLESS_SNAPSHOT>>

\* the page is reloaded: the state of Home starts again from useState([]),
\* sessionStorage is kept, and time has passed
Reload ==
  /\ loads < MaxLoads
  /\ dateNow < MaxDateNow
  /\ loads' = loads + 1
  /\ dateNow' = dateNow + 1
  /\ tabs' = <<>>
  /\ UNCHANGED <<sessionStorage, presented>>
  /\ UNCHANGED <<fnVars, codecVars, ringVars, sendVars, srvVars, cliVars,
                 ENABLE_HEADLESS_SNAPSHOT>>

NextReload ==
  \/ \E mode \in {"ssh", "local"} : handleConnect(mode)
  \/ Millisecond
  \/ Reload

(***************************************************************************)
(* SpecConfig: the ConnectConfig handleSshAuth builds from an AUTH message. *)
(* A field that is undefined or "" in the message is "" here (the code     *)
(* tests fields for truthiness only), and so is a field the config lacks.  *)
(***************************************************************************)
NoConfig == [built |-> FALSE]

\* the AUTH messages of SpecConfig: every combination of a password, a
\* private key and a passphrase being given
ConfigMessages ==
  [tabId      : Keys,
   mode       : {"ssh"},
   host       : {"203.0.113.7", "10.0.0.1", ""},
   username   : {"u", ""},
   password   : {"pw", ""},
   privateKey : {"key", ""},
   passphrase : {"phrase", ""},
   port       : {0, 22, 2222}]

\* parseInt(String(sshPort)) || 22, the port being absent (0) or a number
parsePort(port) == IF port = 0 THEN 22 ELSE port

\* the config object of handleSshAuth
sshConnectConfig(msg) ==
  [built      |-> TRUE,
   host       |-> msg.host,
   port       |-> parsePort(msg.port),
   username   |-> msg.username,
   password   |-> IF msg.password # "" THEN msg.password ELSE "",
   privateKey |-> IF msg.password = "" /\ msg.privateKey # ""
                  THEN msg.privateKey ELSE "",
   passphrase |-> IF msg.password = "" /\ msg.privateKey # ""
                     /\ msg.passphrase # ""
                  THEN msg.passphrase ELSE ""]

InitConfigIdle ==
  /\ authMsg = [tabId |-> 1, mode |-> "ssh", host |-> "", username |-> "",
                password |-> "", privateKey |-> "", passphrase |-> "",
                port |-> 0]
  /\ connectConfig = NoConfig

InitConfig ==
  /\ authMsg \in ConfigMessages
  /\ connectConfig = NoConfig

\* handleSshAuth up to conn.connect(config), for a message that passes
\* its checks
BuildConfig ==
  /\ ~connectConfig.built
  /\ sshAuthError(authMsg) = ""
  /\ connectConfig' = sshConnectConfig(authMsg)
  /\ UNCHANGED authMsg
  /\ UNCHANGED <<xterm, snapshot>>
  /\ UNCHANGED <<codecVars, ringVars, ENABLE_HEADLESS_SNAPSHOT, srvVars, sendVars, cliVars, pageVars>>

NextConfig == BuildConfig

(***************************************************************************)
(* SpecSnapshot: serializeSnapshot applied to a headless terminal.  A cell *)
(* is its characters and its width: 1, 2 for a wide character, 0 for the   *)
(* cell after a wide character.                                            *)
(***************************************************************************)
NoSnapshot == [taken |-> FALSE]

Cell(ch, w) == [ch |-> ch, w |-> w]

RECURSIVE BufferLines(_)
\* the lines of n cells a terminal can hold: narrow characters and blanks
\* (whose getChars() is ""), and wide characters with the cell after them
BufferLines(n) ==
  IF n = 0 THEN {<<>>}
  ELSE {<<Cell(ch, 1)>> \o rest : ch \in {"a", ""}, rest \in BufferLines(n - 1)}
       \cup (IF n >= 2
              THEN {<<Cell("W", 2), Cell("", 0)>> \o rest : rest \in BufferLines(n - 2)}
              ELSE {})

\* the terminals of SpecSnapshot: the buffer holds the rows of the screen
\* and the lines scrolled off it
Terminals ==
  UNION {[cols : {cols}, rows : {rows},
          lines : UNION {[1..len -> BufferLines(cols)] : len \in rows..(rows + MaxScroll)}] :
           cols \in 2..MaxCols, rows \in 1..MaxRows}

\* the cells serializeSnapshot pushes for a buffer line
snapshotCells(line) ==
  SelectSeq([c \in 1..Len(line) |->
               Cell(IF line[c].ch = "" THEN " " ELSE line[c].ch, line[c].w)],
            LAMBDA cell : cell.w # 0)

\* serializeSnapshot(term): cols, rows and lines of the result
snapshotGrid(term) ==
  LET bufLen    == Len(term.lines)
      startLine == (IF bufLen > term.rows THEN bufLen - term.rows ELSE 0)
  IN [taken |-> TRUE,
      cols  |-> term.cols,
      rows  |-> term.rows,
      lines |-> [r \in 1..term.rows |->
                   IF startLine + r > bufLen THEN <<Cell(" ", 1)>>
                   ELSE snapshotCells(term.lines[startLine + r])]]

InitSnapshotIdle ==
  /\ xterm = [cols |-> 2, rows |-> 1, lines |-> <<<<Cell("", 1), Cell("", 1)>>>>]
  /\ snapshot = NoSnapshot

InitSnapshot ==
  /\ xterm \in Terminals
  /\ snapshot = NoSnapshot

\* serializeSnapshot(session.headlessTerm) is called
TakeSnapshot ==
  /\ ~snapshot.taken
  /\ snapshot' = snapshotGrid(xterm)
  /\ UNCHANGED xterm
  /\ UNCHANGED <<authMsg, connectConfig>>
  /\ UNCHANGED <<codecVars, ringVars, ENABLE_HEADLESS_SNAPSHOT, srvVars, sendVars, cliVars, pageVars>>

NextSnapshot == TakeSnapshot

(***************************************************************************)
(* Specifications.                                                         *)
(***************************************************************************)
InitCodecIdle ==
  /\ cType = 0 /\ cPayload = <<>> /\ raw = <<>> /\ cut = FALSE
  /\ decoded = null /\ cStage = "input"

NextCodec == Encode \/ Truncate \/ Decode

InitSpecCodec == InitCodec /\ InitServer /\ InitRing /\ InitSendIdle
  /\ InitClient /\ InitPage /\ InitConfigIdle /\ InitSnapshotIdle

SpecCodec == InitSpecCodec /\ [][NextCodec]_vars

NextRing == AppendChunk

InitSpecRing == InitCodecIdle /\ InitServer /\ InitRing /\ InitSendIdle
  /\ InitClient /\ InitPage /\ InitConfigIdle /\ InitSnapshotIdle

SpecRing == InitSpecRing /\ [][NextRing]_vars

Init == InitCodecIdle /\ InitServer /\ InitRing /\ InitSendIdle
  /\ InitClient /\ InitPage /\ InitConfigIdle /\ InitSnapshotIdle

Spec == Init /\ [][Next]_vars

\* AUTH frames only, from the sockets of one client address
NextAdmit ==
  \/ \E w \in AdmitSocks : Connection(w)
  \/ \E w \in AdmitSocks, msg \in AdmitMessages : AuthRefused(w, msg)
  \/ \E w \in AdmitSocks, msg \in AdmitMessages : AuthLocal(w, msg)
  \/ \E w \in AdmitSocks, msg \in AdmitMessages : AuthSsh(w, msg)
  \/ \E b \in AdmitBackends : SshReady(b)
  \/ \E b \in AdmitBackends : SshError(b)

SpecAdmit == Init /\ [][NextAdmit]_vars

\* frames that are ignored, among frames that are handled
NextFrames ==
  \/ \E w \in Socks : Connection(w)
  \/ \E w \in Socks : Malformed(w)
  \/ \E w \in Socks : HandlerThrows(w)
  \/ \E w \in Socks, msg \in AuthMessages : AuthRefused(w, msg)
  \/ \E w \in Socks, msg \in AuthMessages :
       NextBackend \in BackendIds /\ AuthLocal(w, msg)
  \/ \E w \in Socks, key \in Keys : Reconnect(w, key)
  \/ \E w \in Socks : Data(w)
  \/ \E w \in Socks : Ping(w)
  \/ \E b \in BackendIds : BackendData(b)

SpecFrames == Init /\ [][NextFrames]_vars

\* sessions that are created, detached, reattached and destroyed under
\* keys that several sockets use
NextLife ==
  \/ \E w \in Socks : Connection(w)
  \/ \E w \in Socks : SockDrop(w)
  \/ \E w \in Socks : SockClose(w)
  \/ \E w \in Socks, msg \in AuthMessages :
       NextBackend \in LifeBackends /\ AuthLocal(w, msg)
  \/ \E w \in Socks, msg \in AuthMessages :
       NextBackend \in LifeBackends /\ AuthSsh(w, msg)
  \/ \E w \in Socks, key \in Keys : Reconnect(w, key)
  \/ \E b \in LifeBackends : SshReady(b)
  \/ \E b \in LifeBackends : StreamClose(b)
  \/ \E b \in LifeBackends : ConnClose(b)
  \/ \E b \in LifeBackends : PtyExit(b)
  \/ \E n \in Elapses : Sweep(n)

InitSpecLife == Init /\ ENABLE_HEADLESS_SNAPSHOT = FALSE

SpecLife == InitSpecLife /\ [][NextLife]_vars

InitSpecConfig ==
  /\ InitCodecIdle /\ InitServer /\ InitRing /\ InitSendIdle
  /\ InitClient /\ InitPage /\ InitConfig /\ InitSnapshotIdle
  /\ ENABLE_HEADLESS_SNAPSHOT = FALSE

SpecConfig == InitSpecConfig /\ [][NextConfig]_vars

InitSpecSnapshot ==
  /\ InitCodecIdle /\ InitServer /\ InitRing /\ InitSendIdle
  /\ InitClient /\ InitPage /\ InitConfigIdle /\ InitSnapshot
  /\ ENABLE_HEADLESS_SNAPSHOT = TRUE

SpecSnapshot == InitSpecSnapshot /\ [][NextSnapshot]_vars

\* the client without keystrokes, with the steps that happen by themselves
\* taken eventually: timers run out and fire, a connecting socket opens
\* unless it fails, and the server answers a hello frame.  Sockets closing
\* and the user selecting manual retry may never happen.
NextRestart ==
  \/ \E i \in 1..Len(cSock) : ClientOpen(i)
  \/ \E i \in 1..Len(cSock), ok \in BOOLEAN : ClientAnswer(i, ok)
  \/ \E i \in 1..Len(cSock) : ClientFail(i)
  \/ \E i \in 1..Len(cSock) : ClientClose(i)
  \/ Wait
  \/ TimerFires
  \/ \E presumed \in Presumptions : ManualRetry(presumed)

InitSpecRestart == Init /\ ENABLE_HEADLESS_SNAPSHOT = FALSE

SpecRestart ==
  /\ InitSpecRestart /\ [][NextRestart]_vars
  /\ WF_vars(Wait)
  /\ WF_vars(TimerFires)
  /\ WF_vars(\E i \in 1..Len(cSock) : ClientOpen(i))
  /\ WF_vars(\E i \in 1..Len(cSock), ok \in BOOLEAN : ClientAnswer(i, ok))

\* bursts of output to a socket that may close
NextBatch ==
  \/ \E w \in Socks : Connection(w)
  \/ \E w \in Socks : SockDrop(w)
  \/ \E w \in Socks : SockClose(w)
  \/ \E w \in Socks, msg \in AuthMessages :
       NextBackend \in BackendIds /\ AuthLocal(w, msg)
  \/ \E w \in Socks, msg \in AuthMessages :
       NextBackend \in BackendIds /\ AuthSsh(w, msg)
  \/ \E b \in BackendIds : SshReady(b)
  \/ \E b \in BackendIds : BurstData(b)
  \/ \E b \in BackendIds : Immediate(b)

InitSpecBatch == Init /\ ENABLE_HEADLESS_SNAPSHOT = FALSE

SpecBatch == InitSpecBatch /\ [][NextBatch]_vars

InitSpecClient == Init /\ ENABLE_HEADLESS_SNAPSHOT = FALSE

SpecClient == InitSpecClient /\ [][NextClient]_vars

InitSpecReload == Init /\ ENABLE_HEADLESS_SNAPSHOT = FALSE

SpecReload == InitSpecReload /\ [][NextReload]_vars

NextSend == Flush

InitSpecSend == InitCodecIdle /\ InitServer /\ InitRing /\ InitSend
  /\ InitClient /\ InitPage /\ InitConfigIdle /\ InitSnapshotIdle

SpecSend == InitSpecSend /\ [][NextSend]_vars

(***************************************************************************)
(* Properties of the frame codec (SpecCodec).                              *)
(***************************************************************************)
\* C9: for every type byte and every payload of at most 65535 bytes,
\* decoding the encoded frame gives back exactly that type and payload
RoundTrip ==
  (cStage = "decoded" /\ ~cut) => decoded = [type |-> cType, payload |-> cPayload]

\* a frame whose payload length needs both bytes of the length field has
\* been encoded and decoded whole
RoundTripTwoLengthBytes ==
  /\ cStage = "decoded" /\ ~cut
  /\ Len(cPayload) = ByteRange + 1
  /\ Len(raw) = 3 + ByteRange + 1

\* C10: decoding any proper prefix of a valid encoded frame, shorter than
\* the 3-byte header or shorter than header plus declared payload length,
\* returns null and does not throw
TruncationSafe ==
  (cStage = "decoded" /\ cut) => decoded = null

\* a prefix that keeps the whole header and loses part of a payload has
\* been decoded
TruncatedInPayload ==
  /\ cStage = "decoded" /\ cut
  /\ Len(raw) >= 3
  /\ Len(raw) < 3 + Len(cPayload)

(***************************************************************************)
(* Properties of the ring buffer (SpecRing).                               *)
(***************************************************************************)
\* the bytes the ring holds, read with the offset and the wrapped flag
\* that appendOutput maintains
storedOutput(session) ==
  ReadRing(session._ringBuf, session._ringOffset, session._ringFull)

\* what a read-back has to return: the last min(total, capacity) bytes
\* appended, oldest first
ExpectedOutput == LastN(appended, Min(Len(appended), MAX_OUTPUT_BUFFER))

\* appendOutput keeps the last min(total, capacity) bytes in the ring
RingStoresLatest == storedOutput(ring) = ExpectedOutput

\* C8: after any sequence of appends, reading the session's output
\* buffer returns the last min(total appended, capacity) bytes in order
RingReadBack == outputBuffer(ring) = ExpectedOutput

(***************************************************************************)
(* Properties of frame sizes (SpecSend).                                   *)
(***************************************************************************)
\* C11: encodeFrame is never called with a payload of more than 65535
\* bytes (larger output being split by the caller)
PayloadsWithinLimit ==
  \A i \in 1..Len(encodeCalls) : encodeCalls[i] <= MaxU16

(***************************************************************************)
(* Properties of the server (Spec).                                        *)
(***************************************************************************)
\* the frames a step appends to the log of socket w
NewFrames(w) == SubSeq(recv'[w], Len(recv[w]) + 1, Len(recv'[w]))

\* the types of a sequence of frames
Types(frames) == [i \in 1..Len(frames) |-> frames[i].type]

\* the step is one in which backend b emits a chunk
Emits(b) == backend'[b].produced = backend[b].produced + 1

\* the chunk backend b emits in a step of Emits(b)
Emitted(b) == <<backend'[b].produced>>

\* socket w reattached to backend b by RECONNECT (it is not the socket
\* that created the session) and is still open
Reattached(b, w) ==
  /\ attached[b] = w
  /\ w # 0
  /\ w # backend[b].ws
  /\ sock[w].readyState = "open"

\* C1: once a second socket has attached to a session by RECONNECT, each
\* later output event of the backend is delivered to exactly one socket,
\* the newly attached one, and to no other
OutputToNewSocketOnly ==
  [][\A b \in BackendIds, w \in Socks :
       (Reattached(b, w) /\ Emits(b)) =>
         /\ NewFrames(w) = <<Frame(MsgSSH_DATA, Emitted(b), "")>>
         /\ \A v \in Socks \ {w} : recv'[v] = recv[v]]_vars

\* C2: when a socket reattaches after the backend produced N bytes with
\* no socket attached, 1 <= N <= capacity, it is sent a SNAPSHOT or a
\* REPLAY whose payload ends with exactly those N bytes
MissedOutputCaughtUp ==
  [][\A b \in BackendIds, w \in Socks :
       (/\ attached[b] = 0 /\ attached'[b] = w
        /\ Len(missed[b]) \in 1..MAX_OUTPUT_BUFFER) =>
         \E i \in 1..Len(NewFrames(w)) :
           LET f == NewFrames(w)[i]
           IN \/ f.type = MsgSNAPSHOT
              \/ /\ f.type = MsgREPLAY
                 /\ Len(f.payload) >= Len(missed[b])
                 /\ LastN(f.payload, Len(missed[b])) = missed[b]]_vars

Closes(w) == sock[w].readyState # "closed" /\ sock'[w].readyState = "closed"

\* backend b after the step differs from before at most in the socket
\* reference and the last-activity time of its session
OnlyDetaches(b) ==
  backend'[b] = [backend[b] EXCEPT
                   !.session.ws = backend'[b].session.ws,
                   !.session.lastActivity = backend'[b].session.lastActivity]

\* C4: a socket's close only detaches its session (socket reference null,
\* last activity recorded, registry entry and backend untouched), and a
\* RECONNECT for a key still in the registry attaches the socket to that
\* same backend and creates no backend
CloseDetachesOnly ==
  [][/\ \A w \in Socks : Closes(w) =>
          /\ sessions' = sessions
          /\ \A b \in BackendIds : OnlyDetaches(b)
          /\ LET b == SessionOf(w)
             IN b # 0 => /\ backend'[b].session.ws = 0
                         /\ backend'[b].session.lastActivity = now
     /\ \A w \in Socks, key \in Keys :
          (Reconnect(w, key) /\ sessions[key] # 0) =>
            /\ sessions' = sessions
            /\ \A b \in BackendIds : OnlyDetaches(b)
            /\ backend'[sessions[key]].session.ws = w
            /\ Types(NewFrames(w))[Len(NewFrames(w))] = MsgRECONNECTED]_vars

\* the socket that created a session has closed, the session's backend is
\* still running and registered, and another socket is attached to it
ReattachedAfterClose ==
  \E b \in BackendIds, w \in Socks :
    /\ backend[b].hasSession
    /\ sock[backend[b].ws].readyState = "closed"
    /\ sessions[backend[b].tabId] = b
    /\ Running(backend[b])
    /\ backend[b].session.ws = w
    /\ w # backend[b].ws

\* C5: a sweep destroys every session that has been detached and idle for
\* longer than the timeout (registry entry removed, backend asked to
\* close), and a RECONNECT for a key with no registry entry is answered
\* with the "Session expired" ERROR and attaches nothing
DetachedExpires ==
  [][/\ now' # now =>
          \A key \in Keys :
            LET b == sessions[key]
            IN (/\ b # 0
                /\ backend[b].session.ws = 0
                /\ now' - backend[b].session.lastActivity > SESSION_TIMEOUT_MS)
               => /\ sessions'[key] = 0
                  /\ ~Running(backend'[b])
     /\ \A w \in Socks, key \in Keys :
          (Reconnect(w, key) /\ sessions[key] = 0) =>
            /\ NewFrames(w) = <<ErrorFrame("Session expired. Please reconnect.")>>
            /\ sessions' = sessions
            /\ backend' = backend
            /\ attached' = attached]_vars

\* a detached session was destroyed by the sweep (its pty was killed by
\* closeSession) and a RECONNECT for its key was then refused
ExpiredThenRefused ==
  \E b \in BackendIds, w \in Socks :
    /\ backend[b].pty = "killed"
    /\ backend[b].session.ws = 0
    /\ sessions[backend[b].tabId] = 0
    /\ sock[w].tabId = backend[b].tabId
    /\ Len(recv[w]) > 0
    /\ recv[w][Len(recv[w])] = ErrorFrame("Session expired. Please reconnect.")

\* C12: a RECONNECT for a key in the registry attaches the socket to that
\* session and ends with a RECONNECTED frame to it; a RECONNECT for a key
\* not in the registry sends exactly the "Session expired" ERROR, creates
\* no session and changes no session's socket
ReconnectOutcome ==
  [][\A w \in Socks, key \in Keys :
       Reconnect(w, key) =>
         /\ sessions' = sessions
         /\ IF sessions[key] # 0
            THEN /\ backend'[sessions[key]].session.ws = w
                 /\ NewFrames(w)[Len(NewFrames(w))].type = MsgRECONNECTED
                 /\ \A i \in 1..Len(NewFrames(w)) :
                      NewFrames(w)[i].type # MsgERROR
            ELSE /\ NewFrames(w) =
                      <<ErrorFrame("Session expired. Please reconnect.")>>
                 /\ backend' = backend
                 /\ attached' = attached]_vars

\* a socket that did not create the session is attached to it, under the
\* key it sent, and the last frame it received is RECONNECTED
ReconnectAcknowledged ==
  \E b \in BackendIds, w \in Socks :
    /\ sock[w].tabId \in Keys
    /\ sessions[sock[w].tabId] = b
    /\ backend[b].session.ws = w
    /\ w # backend[b].ws
    /\ Len(recv[w]) > 0
    /\ recv[w][Len(recv[w])].type = MsgRECONNECTED

\* C14: closeSession for a key that is not in the registry, whether it
\* was destroyed or never existed, and for any session, changes neither
\* the registry nor any backend
DestroyIdempotent ==
  \A k \in AllKeys, b \in AllBackends :
    sessions[k] = 0 =>
      closeSession([reg |-> sessions, bks |-> backend], k, b)
        = [reg |-> sessions, bks |-> backend]

\* the connection of a session has emitted 'close' after its stream did:
\* closeSession has been called a second time for the key, which is no
\* longer in the registry
DestroyedTwice ==
  \E b \in BackendIds :
    /\ backend[b].mode = "ssh"
    /\ backend[b].hasSession
    /\ backend[b].stream = "closed"
    /\ backend[b].conn = "closed"
    /\ sessions[backend[b].tabId] = 0

\* the session registered under key has an open socket attached
HasOpenSocket(key) ==
  /\ sessions[key] # 0
  /\ backend[sessions[key]].session.ws # 0
  /\ sock[backend[sessions[key]].session.ws].readyState = "open"

\* C6: the sweep never removes a session that has an attached socket,
\* however long the session has been idle
AttachedNeverExpires ==
  [][now' # now =>
       \A key \in Keys :
         HasOpenSocket(key) => sessions'[key] = sessions[key]]_vars

\* C7: after a backend write reported non-accepted, nothing more is
\* written to that backend until its drain event
NoWriteBeforeDrain ==
  [][\A b \in BackendIds :
       backend[b].needDrain => backend'[b].input = backend[b].input]_vars

(***************************************************************************)
(* Properties of admission (SpecAdmit).                                    *)
(***************************************************************************)
\* the step handles the AUTH frame msg arriving on socket w
AuthFrame(w, msg) ==
  AuthRefused(w, msg) \/ AuthLocal(w, msg) \/ AuthSsh(w, msg)

\* the number of keys in the registry (sessions.size)
Registered == Cardinality({k \in AllKeys : sessions[k] # 0})

\* the step sends socket w exactly one frame, an ERROR
AnsweredWithError(w) ==
  Len(NewFrames(w)) = 1 /\ NewFrames(w)[1].type = MsgERROR

\* C13: an AUTH whose key is already in the registry is answered with an
\* ERROR and creates no backend
ExistingKeyRefused ==
  [][\A w \in AdmitSocks, msg \in AdmitMessages :
       sessions[msg.tabId] # 0 /\ AuthFrame(w, msg)
         => AnsweredWithError(w) /\ backend' = backend]_vars

\* the step is one in which the AUTH of socket w fails: it is refused
\* before a backend is created, or the connection made for it ends
\* without a session
AuthFails(w) ==
  \/ \E msg \in AdmitMessages : AuthRefused(w, msg)
  \/ \E b \in AdmitBackends :
       /\ backend[b].ws = w
       /\ backend[b].conn = "connecting"
       /\ backend'[b].conn = "ended"

\* C15: a failed AUTH sends the requesting socket an ERROR frame and
\* nothing else, creates no session and leaves the registry as it was; a
\* connection that failed never gets a session afterwards, and CONNECTED
\* is sent only in a step that creates the session of an AUTH of that
\* socket
FailedAuthSurfaced ==
  [][/\ \A w \in AdmitSocks :
          AuthFails(w) =>
            /\ AnsweredWithError(w)
            /\ sessions' = sessions
            /\ \A b \in AdmitBackends : ~backend'[b].hasSession
                                            \/ backend[b].hasSession
     /\ \A b \in AdmitBackends :
          (/\ backend[b].mode # "none"
           /\ ~backend[b].hasSession
           /\ backend[b].conn # "connecting") => ~backend'[b].hasSession
     /\ \A w \in AdmitSocks :
          (\E i \in 1..Len(NewFrames(w)) :
             NewFrames(w)[i].type = MsgCONNECTED)
            => \E b \in AdmitBackends :
                 /\ backend'[b].ws = w
                 /\ ~backend[b].hasSession
                 /\ backend'[b].hasSession]_vars

\* an AUTH was refused for its credentials, and another failed after its
\* connection was started; neither key is in the registry
RefusedAndFailed ==
  \E v \in AdmitSocks, b \in AdmitBackends :
    /\ recv[v] = <<ErrorFrame("Password or private key is required")>>
    /\ sessions[sock[v].tabId] = 0
    /\ backend[b].conn = "ended"
    /\ ~backend[b].hasSession
    /\ Len(recv[backend[b].ws]) = 1
    /\ recv[backend[b].ws][1].type = MsgERROR
    /\ sessions[backend[b].tabId] = 0

\* the ERROR message of the capacity check
CapacityMessage ==
  "Server is at maximum session capacity. Please try again later."

\* C16: when the registry holds MAX_TOTAL_SESSIONS sessions an AUTH is
\* answered with the capacity ERROR, no backend is created and no session,
\* backend or registry entry changes
GlobalCapRefuses ==
  [][\A w \in AdmitSocks, msg \in AdmitMessages :
       Registered >= MAX_TOTAL_SESSIONS /\ AuthFrame(w, msg)
         => /\ NewFrames(w) = <<ErrorFrame(CapacityMessage)>>
            /\ backend' = backend
            /\ sessions' = sessions
            /\ attached' = attached]_vars

\* the registry is full and a socket has been refused for capacity
RefusedAtCapacity ==
  /\ Registered = MAX_TOTAL_SESSIONS
  /\ \E w \in AdmitSocks : recv[w] = <<ErrorFrame(CapacityMessage)>>

\* C17: when the client (every socket of SpecAdmit has the same address)
\* holds MAX_SESSIONS_PER_IP sessions, an AUTH is answered with an ERROR
\* and creates no backend
ClientCapRefuses ==
  [][\A w \in AdmitSocks, msg \in AdmitMessages :
       Registered >= MAX_SESSIONS_PER_IP /\ AuthFrame(w, msg)
         => AnsweredWithError(w) /\ backend' = backend]_vars

\* the host is in a private or loopback address range
InPrivateRange(host) ==
  \/ host \in {"localhost", "::1", "0.0.0.0"}
  \/ LET parts == HostParts(host)
     IN /\ Len(parts) = 4
        /\ \/ parts[1] \in {10, 127}
           \/ parts[1] = 172 /\ parts[2] >= 16 /\ parts[2] <= 31
           \/ parts[1] = 192 /\ parts[2] = 168

\* C18: an AUTH for the remote shell whose host is in a private or
\* loopback range is answered with an ERROR and no connection is started,
\* whatever its credentials
PrivateHostRefused ==
  [][\A w \in AdmitSocks, msg \in AdmitMessages :
       msg.mode = "ssh" /\ InPrivateRange(msg.host) /\ AuthFrame(w, msg)
         => AnsweredWithError(w) /\ backend' = backend]_vars

(***************************************************************************)
(* Properties of ignored frames (SpecFrames).                              *)
(***************************************************************************)
\* the step is one in which a frame of socket w is ignored
Ignores(w) == Len(sock'[w].ignored) > Len(sock[w].ignored)

BackendCloses(b) ==
  /\ backend[b].hasSession
  /\ sessions[backend[b].tabId] = b
  /\ \/ backend[b].stream # "closed" /\ backend'[b].stream = "closed"
     \/ backend[b].conn # "closed" /\ backend'[b].conn = "closed"
     \/ backend[b].pty # "exited" /\ backend'[b].pty = "exited"

\* C20: when the backend of a registered session closes or exits, the
\* open socket attached to the session, if any, is sent DISCONNECTED and
\* the key is removed from the registry; a RECONNECT for a key that is not
\* in the registry is answered with an ERROR
BackendCloseDisconnects ==
  [][/\ \A b \in BackendIds :
          BackendCloses(b) =>
            /\ sessions'[backend[b].tabId] = 0
            /\ \A w \in Socks :
                 attached[b] = w /\ sock[w].readyState = "open"
                   => NewFrames(w) = <<Frame(MsgDISCONNECTED, <<>>, "")>>
     /\ \A w \in Socks, key \in Keys :
          Reconnect(w, key) /\ sessions[key] = 0
            => AnsweredWithError(w)]_vars

(***************************************************************************)
(* Properties of the client (SpecClient).                                  *)
(***************************************************************************)
\* the types of the frames socket i has sent
SentTypes(i) == [k \in 1..Len(cSock[i].sent) |-> cSock[i].sent[k].type]

\* C21: a socket the client creates by itself, after a connection was
\* lost, sends RECONNECT as its first frame and never sends AUTH
AutoSocketsReconnect ==
  \A i \in 1..Len(cSock) :
    cSock[i].auto /\ cSock[i].sent # <<>> =>
      /\ SentTypes(i)[1] = "RECONNECT"
      /\ \A k \in 1..Len(cSock[i].sent) : SentTypes(i)[k] # "AUTH"

\* the first socket was connected and has closed, and a socket created by
\* a timer has sent its first frame and been answered
AutoSocketAnswered ==
  /\ cSock[1].acked /\ cSock[1].state = "closed"
  /\ \E i \in 2..Len(cSock) :
       /\ cSock[i].auto
       /\ cSock[i].acked
       /\ cSock[i].sent # <<>>
       /\ ~isConnecting

\* C22: while the manual control is shown no socket is created, except by
\* the control itself
NoSocketWhileButtonShown ==
  [][showReconnectBtn /\ Len(cSock') > Len(cSock)
       => ~cSock'[Len(cSock')].auto]_vars

\* C23: the delays of attempts 0..4 are 1000, 2000, 4000, 8000 and 16000,
\* and a socket that fails is rescheduled once, after one such delay
BackoffSchedule ==
  /\ [k \in 0..4 |-> backoffDelay(k)]
       = [k \in 0..4 |-> 1000 * 2^k]
  /\ \A a, b \in 1..Len(scheduled) :
       scheduled[a].cause = scheduled[b].cause => a = b

\* C24: a keystroke produced while no socket of the client was open is
\* in no frame that any socket has sent
DroppedNeverSent ==
  \A n \in dropped : \A i \in 1..Len(cSock) :
    \A k \in 1..Len(cSock[i].sent) :
      ~(cSock[i].sent[k].type = "DATA" /\ cSock[i].sent[k].key = n)

\* a keystroke was produced with no socket open, and a socket created
\* later has reconnected and is open
DroppedThenReconnected ==
  /\ dropped # {}
  /\ \E i \in 2..Len(cSock) :
       /\ cSock[i].auto
       /\ cSock[i].state = "open"
       /\ cSock[i].acked
       /\ wsRef = i
       /\ ~isConnecting

(***************************************************************************)
(* Properties of the page (SpecReload).                                    *)
(***************************************************************************)
\* C25: a terminal mounted after a reload, for a connection that had a
\* terminal before the reload, presents the tabId that terminal had
KeyReusedAfterReload ==
  \A i \in 1..Len(presented) :
    (\E j \in 1..Len(presented) :
       /\ presented[j].load < presented[i].load
       /\ presented[j].mode = presented[i].mode)
    => \E j \in 1..Len(presented) :
         /\ presented[j].load < presented[i].load
         /\ presented[j].mode = presented[i].mode
         /\ presented[j].tabId = presented[i].tabId

(***************************************************************************)
(* Properties of events that arrive late (Spec).                           *)
(***************************************************************************)
\* C26: the close event of a socket leaves alone a session that is
\* attached to another socket
StaleCloseKeepsAttachment ==
  [][\A w \in Socks, b \in BackendIds :
       /\ Closes(w)
       /\ backend[b].hasSession
       /\ backend[b].session.ws \notin {0, w}
       => backend'[b].session.ws = backend[b].session.ws]_vars

\* the step delivers a close event of backend b: stream 'close', conn
\* 'close' or pty exit
BackendEvent(b) ==
  \/ backend[b].stream # "closed" /\ backend'[b].stream = "closed"
  \/ backend[b].conn # "closed" /\ backend'[b].conn = "closed"
  \/ backend[b].pty # "exited" /\ backend'[b].pty = "exited"

\* C27: a close event of a backend whose key is registered to the session
\* of another backend leaves that entry in the registry and that backend
\* running
OldBackendCloseSparesNewer ==
  [][\A b \in LifeBackends, k \in Keys :
       /\ BackendEvent(b)
       /\ backend[b].tabId = k
       /\ sessions[k] \notin {0, b}
       => /\ sessions'[k] = sessions[k]
          /\ Running(backend[sessions[k]]) => Running(backend'[sessions[k]])]_vars

\* C28: every backend that is running belongs to the session registered
\* under its key
NoOrphanBackend ==
  \A b \in LifeBackends :
    Running(backend[b]) => sessions[backend[b].tabId] = b

(***************************************************************************)
(* Properties of admission under interleaving (SpecAdmit, Spec).           *)
(***************************************************************************)
\* C29: the registry never holds more entries than the global maximum
RegistryWithinCap == Registered <= MAX_TOTAL_SESSIONS

\* C30: the socket a registered session refers to has not had its close
\* event handled
RegisteredSocketNotClosed ==
  \A k \in Keys :
    sessions[k] # 0 /\ backend[sessions[k]].session.ws # 0
      => sock[backend[sessions[k]].session.ws].readyState # "closed"

(***************************************************************************)
(* Properties of the frames a termination sends (Spec).                    *)
(***************************************************************************)
\* how many frames of a type a socket has been sent
Received(w, type) ==
  Cardinality({i \in 1..Len(recv[w]) : recv[w][i].type = type})

\* the backends that have delivered a close or exit event
Ended == {b \in BackendIds : \/ backend[b].stream = "closed"
                             \/ backend[b].conn = "closed"
                             \/ backend[b].pty = "exited"}

\* C31: a socket is sent one DISCONNECTED frame for each backend that has
\* terminated, never two for the channel and the connection of one backend
OneDisconnectedPerBackend ==
  \A w \in Socks : Received(w, MsgDISCONNECTED) <= Cardinality(Ended)

(***************************************************************************)
(* Properties of the client's outstanding attempts (SpecClient).           *)
(***************************************************************************)
\* the reconnect attempts under way: backoff timers that are pending and
\* sockets created by a timer that are still connecting
Outstanding ==
  Len(timers) + Cardinality({i \in 1..Len(cSock) :
                               cSock[i].auto /\ cSock[i].state = "connecting"})

\* C32: at most one automatic reconnect attempt is outstanding, and the
\* events of one socket advance the attempt counter by at most one
OneAttemptOutstanding ==
  /\ Outstanding <= 1
  /\ \A a, b \in 1..Len(scheduled) :
       scheduled[a].cause = scheduled[b].cause
         => scheduled[a].attempt = scheduled[b].attempt

(***************************************************************************)
(* Properties of output batching (SpecBatch).                              *)
(***************************************************************************)
\* the socket the session of backend b sends to, when it is OPEN
OpenSocketOf(b) ==
  IF backend[b].hasSession /\ backend[b].session.ws # 0
     /\ sock[backend[b].session.ws].readyState = "open"
  THEN backend[b].session.ws ELSE 0

\* C33: the first chunk of a batch is sent at once as a frame of its own,
\* and a chunk that arrives while the flush of the tick is still scheduled
\* is not sent by its own arrival but kept for that flush
SameTickChunksCoalesced ==
  [][\A b \in BackendIds :
       Emits(b) /\ OpenSocketOf(b) # 0 =>
         IF backend[b].immediates = 0
         THEN NewFrames(OpenSocketOf(b))
                = <<Frame(MsgSSH_DATA, <<backend'[b].produced>>, "")>>
         ELSE NewFrames(OpenSocketOf(b)) = <<>>]_vars

RECURSIVE SshData(_)
\* the concatenation of the payloads of the SSH_DATA frames among frames
SshData(frames) ==
  IF frames = <<>> THEN <<>>
  ELSE (IF Head(frames).type = MsgSSH_DATA THEN Head(frames).payload ELSE <<>>)
         \o SshData(Tail(frames))

\* backend b is the only one created from its socket, and its session
\* has been attached to that socket, which is open, since its creation
AttachedThroughout(b) ==
  /\ OpenSocketOf(b) # 0
  /\ OpenSocketOf(b) = backend[b].ws
  /\ \A c \in BackendIds \ {b} : backend[c].ws # backend[b].ws

PhaseIn(reg, bks, b) ==
  IF ~bks[b].hasSession THEN "Connecting"
  ELSE IF reg[bks[b].tabId] # b THEN "Terminated"
  ELSE IF bks[b].session.ws # 0 THEN "Connected"
  ELSE "Detached"

Phase(b) == PhaseIn(sessions, backend, b)

\* C35: a session changes state only from Connected to Detached when a
\* socket closes, from Detached to Connected by a RECONNECT, from Detached
\* to Terminated by the timeout and from Connected to Terminated when its
\* backend closes; once Terminated it stays so, its key is not given back
\* to it, no socket is attached to it and nothing is written to its backend
LifecycleTransitions ==
  [][\A b \in BackendIds :
       LET from == Phase(b)
           to   == PhaseIn(sessions', backend', b)
       IN /\ from = "Terminated" =>
               /\ to = "Terminated"
               /\ backend'[b].session.ws = backend[b].session.ws
               /\ backend'[b].input = backend[b].input
          /\ from = "Connected" /\ to = "Detached" =>
               \E w \in Socks : Closes(w)
          /\ from = "Detached" /\ to = "Connected" =>
               \E w \in Socks, key \in Keys : Reconnect(w, key)
          /\ from = "Detached" /\ to = "Terminated" => now' > now
          /\ from = "Connected" /\ to = "Terminated" => BackendEvent(b)
          /\ from = "Connecting" => to \in {"Connecting", "Connected"}]_vars

(***************************************************************************)
(* Properties of reattachment (Spec).                                      *)
(***************************************************************************)
\* C36: a RECONNECT for a registered key is answered with a SNAPSHOT, which
\* only a session with a snapshot engine sends, or else with a REPLAY of
\* the bytes the ring buffer holds (none when it holds none), and in each
\* case with RECONNECTED after it
ReattachCatchUp ==
  [][\A w \in Socks, key \in Keys :
       Reconnect(w, key) /\ sessions[key] # 0 =>
         LET session == backend[sessions[key]].session
             ack     == Frame(MsgRECONNECTED, <<>>, "")
             replay  == IF storedOutput(session) = <<>> THEN <<ack>>
                        ELSE <<Frame(MsgREPLAY, storedOutput(session), ""), ack>>
         IN \/ /\ session.headlessTerm.live
               /\ NewFrames(w) =
                    <<Frame(MsgSNAPSHOT, serializeSnapshot(session.headlessTerm), ""), ack>>
            \/ NewFrames(w) = replay]_vars

(***************************************************************************)
(* Properties of the ssh configuration (SpecConfig).                       *)
(***************************************************************************)
\* C37: for a message with both a password and a private key, the config
\* holds the private key and its passphrase and no password
PrivateKeyPreferred ==
  connectConfig.built /\ authMsg.password # "" /\ authMsg.privateKey # "" =>
    /\ connectConfig.privateKey = authMsg.privateKey
    /\ connectConfig.passphrase = authMsg.passphrase
    /\ connectConfig.password = ""

(***************************************************************************)
(* Properties of snapshots (SpecSnapshot).                                 *)
(***************************************************************************)
\* C38: a snapshot has exactly `rows` lines and each line exactly `cols`
\* cells
SnapshotGridComplete ==
  snapshot.taken =>
    /\ Len(snapshot.lines) = snapshot.rows
    /\ \A r \in 1..Len(snapshot.lines) : Len(snapshot.lines[r]) = snapshot.cols

(***************************************************************************)
(* Properties of manual retry and of refused reconnects (SpecClient,       *)
(* SpecRestart).                                                           *)
(***************************************************************************)
\* C39: manual retry resets the attempt counter and opens a socket that
\* sends RECONNECT when the session is presumed alive and AUTH when it is
\* presumed gone
ManualRetryBothPaths ==
  [][\A presumed \in Presumptions :
       ManualRetry(presumed) =>
         /\ reconnectAttempts' = 0
         /\ cSock'[Len(cSock')].hello =
              IF presumed = "alive" THEN "RECONNECT" ELSE "AUTH"]_vars

\* socket i sent RECONNECT and was answered with ERROR
Refused(i) ==
  i <= Len(cSock) /\ cSock[i].hello = "RECONNECT" /\ cSock[i].refused

\* C40: after a RECONNECT was answered with ERROR the client opens a
\* socket that sends AUTH, or a later socket of it is accepted by the
\* server (as long as it may open sockets at all)
RefusedReconnectRestarts ==
  \A i \in 1..MaxClientSocks :
    Refused(i) ~> \/ \E j \in (i + 1)..Len(cSock) :
                       \/ cSock[j].hello = "AUTH"
                       \/ cSock[j].acked /\ ~cSock[j].refused
                  \/ Len(cSock) = MaxClientSocks

=============================================================================
